---- MODULE Spec2Model ----
(***************************************************************************)
(* TM1637Display32: the non-blocking protocol engine of the TM1637 driver  *)
(* (src/TM1637Display32.cpp, ESP32/RP2040 build: BIT_DELAY_US = 50 and     *)
(* INPUT_PULLUP for a released line).                                      *)
(*                                                                         *)
(* Two contexts share the engine.  The main context runs setSegments one   *)
(* source statement at a time (pc holds the line it is about to execute,   *)
(* 0 when it is outside the call); update() runs to completion and may     *)
(* run between any two statements of the main context, which is both the   *)
(* cooperative loop (update() called while pc = 0) and the timer interrupt *)
(* of the ISR example (update() called at any pc).                         *)
(***************************************************************************)
EXTENDS Integers, Sequences, FiniteSets, TLC

VARIABLES
  m_brightness,              \* uint8_t  display control bits
  m_segments,                \* uint8_t[4]
  m_length,                  \* uint8_t
  m_pos,                     \* uint8_t
  m_counter,                 \* volatile uint8_t  sub-step inside the phase, 255 = idle
  m_phase,                   \* volatile uint8_t
  m_byte,                    \* volatile uint8_t  shift register
  m_bit_count,               \* volatile uint8_t
  m_currentSegment,          \* volatile uint8_t
  m_lastUpdateMicros,        \* unsigned long
  m_transmissionStartMillis, \* unsigned long
  clk, dio,                  \* the two GPIO pins: [mode, latch]
  clock,                     \* the platform timer: [us, ms, sub, loop]
  pc,                        \* main context: source line inside setSegments, 0 outside
  segments, length, pos,     \* parameters of the setSegments call in progress / last made
  lengthArg,                 \* the length that call was given, before line 130 clamps it
  wire,                      \* events seen on CLK/DIO since the last setSegments began
  drivenHigh,                \* some pin write left a line in OUTPUT mode with latch HIGH
  ret,                       \* value returned by the last update() / isIdle() call
  branch,                    \* path the last update() call took, "none" when there
                             \* was no call since the last setSegments began
  calls,                     \* number of setSegments calls made
  bTouched,                  \* setBrightness was called since the last setSegments began
  call                       \* the display call the sketch made last, with its arguments

engine == <<m_brightness, m_segments, m_length, m_pos, m_counter, m_phase, m_byte,
            m_bit_count, m_currentSegment, m_lastUpdateMicros, m_transmissionStartMillis>>
lines  == <<clk, dio, wire, drivenHigh>>
vars   == <<engine, lines, clock, pc, segments, length, pos, lengthArg, ret, branch,
            calls, bTouched, call>>

----------------------------------------------------------------------------
(* Bounds of the model *)

MaxCalls == 1

(* Inputs *)

(* setSegments arguments: << segments, length, pos >> *)
SegmentInputs ==
  { << <<63, 6, 91, 79>>, 4, 0 >>, << <<63, 6, 91, 79>>, 2, 1 >>,
    << <<63, 6, 91, 79>>, 0, 2 >>, << <<255, 0, 128, 1>>, 3, 6 >>,
    << <<255, 0, 128, 1>>, 1, 3 >>, << <<255, 0, 128, 1>>, 5, 0 >> }
RestartInputs ==
  { << << 63, 6, 91, 79 >>, 4, 0 >>, << << 255, 0, 128, 1 >>, 1, 3 >> }
BrightnessInputs == { <<3, TRUE>>, <<10, FALSE>> }
Garbage == {0, 255}
(* what the stack holds where showNumberBaseEx puts its local array *)
Stacks == { << g, g, g, g >> : g \in Garbage }
(* the values shown: zero, both signs, every digit count, both sides of 2^16 *)
Numbers == { 0, 5, -5, 42, -42, 100, -100, 999, -999, 1000, 1024, 1230, -1234, 9999,
             10000, 12345, -12345, 65535, 65536, 65541 }
HexNumbers == { 0, 10, 255, 48879, 65535 }
DotMasks == { 0, 64, 224 }
DisplayLengths == { 0, 1, 2, 3, 4, 5, 255 }
Positions == { 0, 1, 255 }
(* text as character codes: "", "A", "Hi", "a-1", "12 4", "HELLO" *)
Texts == { << >>, << 65 >>, << 72, 105 >>, << 97, 45, 49 >>, << 49, 50, 32, 52 >>,
           << 72, 69, 76, 76, 79 >> }
TextPositions == { 0, 1, 2, 3, 4, 5, 255 }
(* char, signed or unsigned *)
Chars == (-128)..255
LeadChars == { 70, 116, 42 }
(* recorded timestamps, far from and just before the wrap of the counter, and
   true elapsed times on both sides of the two limits and of 2^16 *)
Stamps == { << 0, 0 >>, << 0, 65000 >>, << 1, 65530 >>, << 32767, 65535 >>,
            << 65535, 0 >>, << 65535, 65486 >>, << 65535, 65500 >>, << 65535, 65535 >> }
ElapsedTimes == { 0, 1, 25, 36, 49, 50, 51, 52, 64, 100, 1000, 50000, 65535, 65536,
                  65586, 100000, 2000000000 }
ICBehaviours == { "ack", "nack", "hold" }
WorkTimes == {30}
MicrosTicks == {25}
MillisTicks == {50000}

----------------------------------------------------------------------------
(* Program constants *)

TM1637_I2C_COMM1 == 64
TM1637_I2C_COMM2 == 192
TM1637_I2C_COMM3 == 128
BIT_DELAY_US == 50
WATCHDOG_MS == 50
IDLE == 255
LOOP_PERIOD_MS == 100
REFRESH_MS == 30
TIMER_PERIOD_US == 100

UInt8 == 2^8

(* unsigned long is 32 bits wide: a value is the pair << high, low >> of its two
   16-bit halves, and the arithmetic below is arithmetic modulo 2^32 *)
Half == 2^16

U32(hi, lo) == << hi, lo >>

UAdd(a, d) ==
  LET s == a[2] + d
  IN  U32((a[1] + s \div Half) % Half, s % Half)

USub_Saturating(a, b) ==
  IF a[1] < b[1] \/ (a[1] = b[1] /\ a[2] < b[2]) THEN U32(0, 0)
  ELSE LET lo == a[2] - b[2]
       IN  U32(a[1] - b[1] - (IF lo < 0 THEN 1 ELSE 0), lo % Half)

(* unsigned subtraction a - b *)
USub(a, b) ==
  LET lo == a[2] - b[2]
  IN  U32((a[1] - b[1] - (IF lo < 0 THEN 1 ELSE 0)) % Half, lo % Half)

(* comparison of an unsigned long with a constant below 2^16 *)
UGreater(a, n) == a[1] > 0 \/ a[2] > n
ULess(a, n) == a[1] = 0 /\ a[2] < n

(* the timer of the platform: us and ms are the readings of micros() and
   millis(), sub the microseconds into the current millisecond, loop the
   microseconds into the current period of the main loop *)
Advance(c, d) ==
  [us   |-> UAdd(c.us, d),
   ms   |-> UAdd(c.ms, (c.sub + d) \div 1000),
   sub  |-> (c.sub + d) % 1000,
   loop |-> (c.loop + d) % (LOOP_PERIOD_MS * 1000)]

micros == clock.us
millis == clock.ms

(* the timer readings at construction, 1 ms after the timers started; the
   loop has its first content when the first period is over *)
StartClocks == { [us |-> U32(0, 1000), ms |-> U32(0, 1), sub |-> 0, loop |-> 1000] }

----------------------------------------------------------------------------
(* GPIO: a pin is its mode and its output latch; pinMode changes the mode,
   digitalWrite the latch.  The bus is the two pins plus what an observer of
   the two lines has seen. *)

Pin(mode, latch) == [mode |-> mode, latch |-> latch]

(* level of the line as the host sets it: a released line is pulled up *)
Level(p) == IF p.mode = "OUTPUT" THEN p.latch ELSE 1

ActivelyHigh(p) == p.mode = "OUTPUT" /\ p.latch = 1

Bit(l) == IF l = 1 THEN "1" ELSE "0"

(* what the lines show when they go from levels (c0, d0) to (c1, d1): a CLK
   rising edge samples DIO, DIO falling with CLK high is START, DIO rising with
   CLK high is STOP *)
Events(c0, d0, c1, d1) ==
  IF c0 = 0 /\ c1 = 1 THEN << Bit(d1) >>
  ELSE IF c0 = 1 /\ c1 = 1 /\ d0 = 1 /\ d1 = 0 THEN << "START" >>
  ELSE IF c0 = 1 /\ c1 = 1 /\ d0 = 0 /\ d1 = 1 THEN << "STOP" >>
  ELSE << >>

SetPin(bus, which, p) ==
  LET nb == [bus EXCEPT ![which] = p]
  IN  [nb EXCEPT !.wire = bus.wire \o Events(Level(bus.clk), Level(bus.dio),
                                             Level(nb.clk), Level(nb.dio)),
                 !.high = bus.high \/ ActivelyHigh(p)]

pinMode(bus, which, mode) == SetPin(bus, which, [bus[which] EXCEPT !.mode = mode])

digitalWrite(bus, which, val) == SetPin(bus, which, [bus[which] EXCEPT !.latch = val])

(* the two idioms of the driver *)
Release(bus, which) == pinMode(bus, which, "INPUT_PULLUP")

DriveLow(bus, which) == digitalWrite(pinMode(bus, which, "OUTPUT"), which, 0)

Bus == [clk |-> clk, dio |-> dio, wire |-> wire, high |-> drivenHigh]

----------------------------------------------------------------------------
(* The three sub-machines.  Each takes the engine fields it works on as a
   record e = [counter, phase, byte, bit_count, currentSegment,
   lastUpdateMicros, bus] and returns [e |-> the fields after the call,
   r |-> the bool it returns]. *)

Inc8_Stuck(x) == x

Inc8(x) == (x + 1) % UInt8

(* the ACK slot with DIO released after the clock *)
writeBit_AckLate(e) ==
  CASE e.counter = 0 ->
         [e |-> [e EXCEPT !.bus = DriveLow(e.bus, "clk"), !.counter = Inc8(e.counter)],
          r |-> FALSE]
    [] e.counter = 1 ->
         [e |-> [e EXCEPT !.bus = IF e.byte % 2 = 1 THEN Release(e.bus, "dio")
                                                    ELSE DriveLow(e.bus, "dio"),
                          !.counter = Inc8(e.counter)],
          r |-> FALSE]
    [] e.counter = 2 ->
         [e |-> [e EXCEPT !.bus = Release(e.bus, "clk"),
                          !.byte = e.byte \div 2,
                          !.bit_count = Inc8(e.bit_count),
                          !.counter = IF Inc8(e.bit_count) < 8 THEN 0
                                                              ELSE Inc8(e.counter)],
          r |-> FALSE]
    [] e.counter = 3 ->
         [e |-> [e EXCEPT !.bus = DriveLow(e.bus, "clk"), !.counter = Inc8(e.counter)],
          r |-> FALSE]
    [] e.counter = 4 ->
         [e |-> [e EXCEPT !.bus = Release(e.bus, "clk"), !.counter = Inc8(e.counter)],
          r |-> FALSE]
    [] e.counter = 5 ->
         [e |-> [e EXCEPT !.bus = Release(e.bus, "dio"), !.counter = Inc8(e.counter)],
          r |-> FALSE]
    [] e.counter = 6 ->
         [e |-> [e EXCEPT !.bus = DriveLow(e.bus, "clk"), !.bit_count = 0],
          r |-> TRUE]
    [] OTHER -> [e |-> e, r |-> FALSE]

writeBit(e) ==
  CASE e.counter = 0 ->
         [e |-> [e EXCEPT !.bus = DriveLow(e.bus, "clk"), !.counter = Inc8(e.counter)],
          r |-> FALSE]
    [] e.counter = 1 ->
         [e |-> [e EXCEPT !.bus = IF e.byte % 2 = 1 THEN Release(e.bus, "dio")
                                                    ELSE DriveLow(e.bus, "dio"),
                          !.counter = Inc8(e.counter)],
          r |-> FALSE]
    [] e.counter = 2 ->
         [e |-> [e EXCEPT !.bus = Release(e.bus, "clk"),
                          !.byte = e.byte \div 2,
                          !.bit_count = Inc8(e.bit_count),
                          !.counter = IF Inc8(e.bit_count) < 8 THEN 0
                                                              ELSE Inc8(e.counter)],
          r |-> FALSE]
    [] e.counter = 3 ->
         [e |-> [e EXCEPT !.bus = DriveLow(e.bus, "clk"), !.counter = Inc8(e.counter)],
          r |-> FALSE]
    [] e.counter = 4 ->
         [e |-> [e EXCEPT !.bus = Release(e.bus, "dio"), !.counter = Inc8(e.counter)],
          r |-> FALSE]
    [] e.counter = 5 ->
         [e |-> [e EXCEPT !.bus = Release(e.bus, "clk"), !.counter = Inc8(e.counter)],
          r |-> FALSE]
    [] e.counter = 6 ->
         [e |-> [e EXCEPT !.bus = DriveLow(e.bus, "clk"), !.bit_count = 0],
          r |-> TRUE]
    [] OTHER -> [e |-> e, r |-> FALSE]

startCondition_Early(e) ==
  CASE e.counter = 0 ->
         [e |-> [e EXCEPT !.bus = Release(e.bus, "clk"), !.counter = Inc8(e.counter)],
          r |-> FALSE]
    [] e.counter = 1 ->
         [e |-> [e EXCEPT !.bus = DriveLow(Release(e.bus, "dio"), "dio")], r |-> TRUE]
    [] OTHER -> [e |-> e, r |-> FALSE]

startCondition(e) ==
  CASE e.counter = 0 ->
         [e |-> [e EXCEPT !.bus = Release(e.bus, "clk"), !.counter = Inc8(e.counter)],
          r |-> FALSE]
    [] e.counter = 1 ->
         [e |-> [e EXCEPT !.bus = Release(e.bus, "dio"), !.counter = Inc8(e.counter)],
          r |-> FALSE]
    [] e.counter = 2 ->
         [e |-> [e EXCEPT !.bus = DriveLow(e.bus, "dio")], r |-> TRUE]
    [] OTHER -> [e |-> e, r |-> FALSE]

stopCondition_Merged(e) ==
  CASE e.counter = 0 ->
         [e |-> [e EXCEPT !.bus = DriveLow(DriveLow(e.bus, "clk"), "dio"),
                          !.counter = Inc8(Inc8(e.counter))],
          r |-> FALSE]
    [] e.counter = 2 ->
         [e |-> [e EXCEPT !.bus = Release(e.bus, "clk"), !.counter = Inc8(e.counter)],
          r |-> FALSE]
    [] e.counter = 3 ->
         [e |-> [e EXCEPT !.bus = Release(e.bus, "dio")], r |-> TRUE]
    [] OTHER -> [e |-> e, r |-> FALSE]

(* a stop whose last sub-step leaves DIO driven low *)
stopCondition_NoRelease(e) ==
  CASE e.counter = 0 ->
         [e |-> [e EXCEPT !.bus = DriveLow(e.bus, "clk"), !.counter = Inc8(e.counter)],
          r |-> FALSE]
    [] e.counter = 1 ->
         [e |-> [e EXCEPT !.bus = DriveLow(e.bus, "dio"), !.counter = Inc8(e.counter)],
          r |-> FALSE]
    [] e.counter = 2 ->
         [e |-> [e EXCEPT !.bus = Release(e.bus, "clk"), !.counter = Inc8(e.counter)],
          r |-> FALSE]
    [] e.counter = 3 -> [e |-> e, r |-> TRUE]
    [] OTHER -> [e |-> e, r |-> FALSE]

stopCondition(e) ==
  CASE e.counter = 0 ->
         [e |-> [e EXCEPT !.bus = DriveLow(e.bus, "clk"), !.counter = Inc8(e.counter)],
          r |-> FALSE]
    [] e.counter = 1 ->
         [e |-> [e EXCEPT !.bus = DriveLow(e.bus, "dio"), !.counter = Inc8(e.counter)],
          r |-> FALSE]
    [] e.counter = 2 ->
         [e |-> [e EXCEPT !.bus = Release(e.bus, "clk"), !.counter = Inc8(e.counter)],
          r |-> FALSE]
    [] e.counter = 3 ->
         [e |-> [e EXCEPT !.bus = Release(e.bus, "dio")], r |-> TRUE]
    [] OTHER -> [e |-> e, r |-> FALSE]

----------------------------------------------------------------------------
(* update() *)

WatchdogExpired_Never(nowMillis, start) == FALSE

WatchdogExpired_Tight(nowMillis, start) == UGreater(USub(nowMillis, start), 5)

WatchdogExpired(nowMillis, start) == UGreater(USub(nowMillis, start), WATCHDOG_MS)

RateLimited_Never(now, last) == FALSE

RateLimited(now, last) == ULess(USub(now, last), BIT_DELAY_US)

(* m_segments[i], i counted from 0 as in the source *)
SegAt(i) == m_segments[i + 1]

Eng == [counter |-> m_counter, phase |-> m_phase, byte |-> m_byte,
        bit_count |-> m_bit_count, currentSegment |-> m_currentSegment,
        lastUpdateMicros |-> m_lastUpdateMicros, bus |-> Bus]

Result_WaitsForAck(e, r, b) ==
  [e |-> e, ret |-> IF e.bus.ic = "ack" THEN r ELSE FALSE, branch |-> b]

Result_AlwaysFalse(e, r, b) == [e |-> e, ret |-> FALSE, branch |-> b]

Result(e, r, b) == [e |-> e, ret |-> r, branch |-> b]

(* the address command, line 213, and the display control command, line 252 *)
AddressCommand_NoMask(p) == TM1637_I2C_COMM2 + p

AddressCommand(p) == TM1637_I2C_COMM2 + (p % 4)

DisplayControl(b) == TM1637_I2C_COMM3 + (b % 16)

(* the switch on m_phase: one sub-step of the current phase *)
phaseStep(e) ==
  CASE e.phase = 0 ->
         LET w == writeBit(e)
         IN  Result(IF w.r THEN [w.e EXCEPT !.phase = 1, !.counter = 0] ELSE w.e,
                    FALSE, "step")
    [] e.phase = 1 ->
         LET w == stopCondition(e)
         IN  Result(IF w.r THEN [w.e EXCEPT !.phase = 2, !.counter = 0,
                                            !.byte = AddressCommand(m_pos)]
                           ELSE w.e,
                    FALSE, "step")
    [] e.phase = 2 ->
         LET w == startCondition(e)
         IN  Result(IF w.r THEN [w.e EXCEPT !.phase = 3, !.counter = 0] ELSE w.e,
                    FALSE, "step")
    [] e.phase = 3 ->
         LET w == writeBit(e)
         IN  Result(IF w.r THEN [w.e EXCEPT !.phase = 4, !.counter = 0,
                                            !.currentSegment = 0,
                                            !.byte = IF m_length > 0 THEN SegAt(0)
                                                                     ELSE w.e.byte]
                           ELSE w.e,
                    FALSE, "step")
    [] e.phase = 4 ->
         LET w  == writeBit(e)
             cs == Inc8(w.e.currentSegment)
         IN  Result(IF w.r THEN IF cs >= m_length
                                THEN [w.e EXCEPT !.currentSegment = cs,
                                                 !.phase = 5, !.counter = 0]
                                ELSE [w.e EXCEPT !.currentSegment = cs,
                                                 !.byte = SegAt(cs), !.counter = 0]
                           ELSE w.e,
                    FALSE, "step")
    [] e.phase = 5 ->
         LET w == stopCondition(e)
         IN  Result(IF w.r THEN [w.e EXCEPT !.phase = 6, !.counter = 0,
                                            !.byte = DisplayControl(m_brightness)]
                           ELSE w.e,
                    FALSE, "step")
    [] e.phase = 6 ->
         LET w == startCondition(e)
         IN  Result(IF w.r THEN [w.e EXCEPT !.phase = 7, !.counter = 0] ELSE w.e,
                    FALSE, "step")
    [] e.phase = 7 ->
         LET w == writeBit(e)
         IN  Result(IF w.r THEN [w.e EXCEPT !.phase = 8, !.counter = 0] ELSE w.e,
                    FALSE, "step")
    [] e.phase = 8 ->
         LET w == stopCondition(e)
         IN  IF w.r THEN Result([w.e EXCEPT !.counter = IDLE], TRUE, "done")
                    ELSE Result(w.e, FALSE, "step")
    [] OTHER -> Result(e, FALSE, "step")

update_NoIdleCheck(e, nowMillis, now) ==
  IF WatchdogExpired(nowMillis, m_transmissionStartMillis)
  THEN Result([e EXCEPT !.counter = IDLE], TRUE, "watchdog")
  ELSE IF RateLimited(now, e.lastUpdateMicros) THEN Result(e, FALSE, "rate")
  ELSE phaseStep([e EXCEPT !.lastUpdateMicros = now])

(* a watchdog that also releases both lines *)
update_WatchdogReleases(e, nowMillis, now) ==
  IF e.counter = IDLE THEN Result(e, TRUE, "idle")
  ELSE IF WatchdogExpired(nowMillis, m_transmissionStartMillis)
       THEN Result([e EXCEPT !.counter = IDLE,
                             !.bus = Release(Release(e.bus, "clk"), "dio")],
                   TRUE, "watchdog")
  ELSE IF RateLimited(now, e.lastUpdateMicros) THEN Result(e, FALSE, "rate")
  ELSE phaseStep([e EXCEPT !.lastUpdateMicros = now])

update(e, nowMillis, now) ==
  IF e.counter = IDLE THEN Result(e, TRUE, "idle")
  ELSE IF WatchdogExpired(nowMillis, m_transmissionStartMillis)
       THEN Result([e EXCEPT !.counter = IDLE], TRUE, "watchdog")
  ELSE IF RateLimited(now, e.lastUpdateMicros) THEN Result(e, FALSE, "rate")
  ELSE phaseStep([e EXCEPT !.lastUpdateMicros = now])

isIdle_WhenArmed == m_counter = 0

isIdle == m_counter = IDLE

----------------------------------------------------------------------------
(* The encoders: segment tables and the functions that turn numbers and text
   into the four segment bytes handed to setSegments.  An array is a sequence,
   its element i of the source is element i + 1 here. *)

SEG_G == 64
SEG_DP == 128
minusSegments == 64
UInt16 == 2^16

digitToSegment ==
  << 63, 6, 91, 79, 102, 109, 125, 7, 127, 111, 119, 124, 57, 94, 121, 113 >>

(* A-Z, 0-9, space, dash *)
charToSegment ==
  << 119, 124, 57, 94, 121, 113, 61, 116, 48, 30, 116, 56, 85, 84, 63, 115, 103, 80,
     109, 120, 62, 28, 106, 118, 110, 91,
     63, 6, 91, 79, 102, 109, 125, 7, 127, 111,
     0, 64 >>

encodeDigit(digit) == digitToSegment[(digit % 16) + 1]

charToSeg_CaseSensitive(c) ==
  IF c >= 65 /\ c <= 90 THEN charToSegment[c - 65 + 1]
  ELSE IF c >= 48 /\ c <= 57 THEN charToSegment[26 + (c - 48) + 1]
  ELSE IF c = 32 THEN charToSegment[36 + 1]
  ELSE IF c = 45 THEN charToSegment[37 + 1]
  ELSE 0

charToSeg(c) ==
  IF c >= 65 /\ c <= 90 THEN charToSegment[c - 65 + 1]
  ELSE IF c >= 97 /\ c <= 122 THEN charToSegment[c - 97 + 1]
  ELSE IF c >= 48 /\ c <= 57 THEN charToSegment[26 + (c - 48) + 1]
  ELSE IF c = 32 THEN charToSegment[36 + 1]
  ELSE IF c = 45 THEN charToSegment[37 + 1]
  ELSE 0

(* x | 0x80 on a byte *)
OrDP(x) == IF x >= SEG_DP THEN x ELSE x + SEG_DP

(* showDots: digits[i] |= (dots & 0x80); dots <<= 1, for i = 0..3 *)
showDots(dots, digits) ==
  [i \in 1..4 |-> IF ((dots * 2^(i - 1)) % UInt8) >= SEG_DP THEN OrDP(digits[i])
                                                            ELSE digits[i]]

(* the loop of lines 456-470, from index i down to 0 *)
RECURSIVE FillDigits(_, _, _, _, _, _)
FillDigits(i, base, num, negative, leading_zero, digits) ==
  IF i < 0 THEN digits
  ELSE LET digit == num % base
           shown == IF digit = 0 /\ num = 0 /\ ~leading_zero THEN 0
                                                             ELSE encodeDigit(digit)
           minus == digit = 0 /\ num = 0 /\ negative
       IN  FillDigits(i - 1, base, num \div base,
                      IF minus THEN FALSE ELSE negative, leading_zero,
                      [digits EXCEPT ![i + 1] = IF minus THEN minusSegments ELSE shown])

(* showNumberBaseEx up to its setSegments call: the arguments of that call,
   and whether an entry outside digits[0..3] was written (digits[length - 1]
   and the entries below it, in either branch).  `stack' is what the
   uninitialised local array digits[4] holds. *)
showNumberBaseEx(base, num, dots, leading_zero, len, position, stack) ==
  LET negative == base < 0
      b        == IF base < 0 THEN -base ELSE base
      zero     == [i \in 1..4 |-> IF i < len THEN 0
                                  ELSE IF i = len THEN encodeDigit(0) ELSE stack[i]]
      \* the passes i = length - 1 .. 4 of the loop write outside digits[4];
      \* each divides num by the base, and the minus sign is spent in the
      \* first pass that finds num = 0 (num < 2^16 <= base^5)
      over     == IF len > 4 THEN len - 4 ELSE 0
      numIn    == num \div b^(IF over > 5 THEN 5 ELSE over)
      negIn    == negative /\ (over = 0 \/ num \div b^(IF over > 5 THEN 5 ELSE over - 1) # 0)
      filled   == FillDigits(IF len > 4 THEN 3 ELSE len - 1, b, numIn, negIn,
                             leading_zero, stack)
  IN  [segments |-> IF num = 0 /\ ~leading_zero THEN zero
                    ELSE IF dots # 0 THEN showDots(dots, filled) ELSE filled,
       length |-> len, pos |-> position,
       outside |-> len > 4 \/ (len = 0 /\ num = 0 /\ ~leading_zero)]

(* int to uint16_t *)
ToUInt16(x) == x % UInt16

showNumberDecEx(num, dots, leading_zero, len, position, stack) ==
  showNumberBaseEx(IF num < 0 THEN -10 ELSE 10, ToUInt16(IF num < 0 THEN -num ELSE num),
                   dots, leading_zero, len, position, stack)

showNumberDec(num, leading_zero, len, position, stack) ==
  showNumberDecEx(num, 0, leading_zero, len, position, stack)

showNumberHexEx(num, dots, leading_zero, len, position, stack) ==
  showNumberBaseEx(16, ToUInt16(num), dots, leading_zero, len, position, stack)

(* lines 501-503: the number of characters displayText writes *)
displayTextLen_NoLimit(textLen, position) == textLen

displayTextLen(textLen, position) == IF 4 - position < textLen THEN 4 - position ELSE textLen

(* displayText up to its setSegments call: the array, and whether some write
   segs[pos + i] fell outside it *)
displayText(text, position) ==
  LET len == displayTextLen(Len(text), position)
  IN  [segments |-> [i \in 1..4 |-> IF i - 1 >= position /\ i - 1 < position + len
                                    THEN charToSeg(text[i - position]) ELSE 0],
       length |-> 4, pos |-> 0,
       outside |-> \E i \in 0..(len - 1) : position + i > 3]

Abs_Identity(x) == x

Abs(x) == IF x < 0 THEN -x ELSE x

(* displayCharAndNumber up to its setSegments call *)
displayCharAndNumber(c, number) ==
  LET absNum == Abs(number)
      q      == absNum \div 100
  IN  [segments |->
         IF absNum >= 10000
         THEN << charToSeg(c), encodeDigit((q \div 100) % 10),
                 OrDP(encodeDigit((q \div 10) % 10)), encodeDigit(q % 10) >>
         ELSE IF absNum >= 1000
         THEN << charToSeg(c), OrDP(encodeDigit((q \div 10) % 10)),
                 encodeDigit(q % 10), charToSeg(75) >>
         ELSE << charToSeg(c),
                 IF number < 0 /\ absNum < 100 THEN SEG_G
                 ELSE IF absNum >= 100 THEN encodeDigit((absNum \div 100) % 10) ELSE 0,
                 IF absNum >= 10 THEN encodeDigit((absNum \div 10) % 10) ELSE 0,
                 encodeDigit(absNum % 10) >>,
       length |-> 4, pos |-> 0]

----------------------------------------------------------------------------
(* The state after construction.  The constructor sets m_brightness, m_counter
   and the two timestamps and leaves the other members as they were: Garbage. *)

PowerOn(l) == [clk |-> Pin("INPUT", l), dio |-> Pin("INPUT", l),
               wire |-> << >>, high |-> FALSE]

Constructor_NoLatchPreset(bus) == Release(Release(bus, "clk"), "dio")

Constructor(bus) ==
  Release(Release(digitalWrite(digitalWrite(bus, "clk", 0), "dio", 0), "clk"), "dio")

(* no display call made yet; a call record holds the function and the
   arguments it takes, the other fields stay as here *)
NoCall == [fn |-> "none", num |-> 0, dots |-> 0, leading_zero |-> FALSE,
           length |-> 0, pos |-> 0, c |-> 0, text |-> << >>, brightness |-> 0, result |-> 0, outside |-> FALSE,
           stamp |-> << 0, 0 >>, expired |-> FALSE, limited |-> FALSE]

Init ==
  /\ m_brightness = 15
  /\ m_counter = IDLE
  /\ m_lastUpdateMicros = U32(0, 0)
  /\ m_transmissionStartMillis = U32(0, 0)
  /\ \E g \in Garbage :
       /\ m_segments = << g, g, g, g >>
       /\ m_length = g
       /\ m_pos = g
       /\ m_phase = g
       /\ m_byte = g
       /\ m_bit_count = g
       /\ m_currentSegment = g
  /\ \E l \in {0, 1} :
       LET b == Constructor(PowerOn(l))
       IN  clk = b.clk /\ dio = b.dio /\ wire = b.wire /\ drivenHigh = b.high
  /\ clock \in StartClocks
  /\ pc = 0
  /\ segments = << 0, 0, 0, 0 >>
  /\ length = 0
  /\ pos = 0
  /\ lengthArg = 0
  /\ ret = FALSE
  /\ branch = "none"
  /\ calls = 0
  /\ bTouched = FALSE
  /\ call = NoCall

----------------------------------------------------------------------------
(* Actions of the stepping context *)

inFlight == m_counter # IDLE

SetBus(b) == clk' = b.clk /\ dio' = b.dio /\ wire' = b.wire /\ drivenHigh' = b.high

(* what one call of update() leaves behind, R being its outcome *)
Store(R) ==
  /\ m_counter' = R.e.counter
  /\ m_phase' = R.e.phase
  /\ m_byte' = R.e.byte
  /\ m_bit_count' = R.e.bit_count
  /\ m_currentSegment' = R.e.currentSegment
  /\ m_lastUpdateMicros' = R.e.lastUpdateMicros
  /\ SetBus(R.e.bus)
  /\ ret' = R.ret
  /\ branch' = R.branch
  /\ UNCHANGED << m_brightness, m_segments, m_length, m_pos,
                  m_transmissionStartMillis, pc, segments, length, pos,
                  lengthArg, calls, bTouched, call >>

(* one call of update(), from loop() or from the timer interrupt *)
Update ==
  \E R \in { update(Eng, millis, micros) } : Store(R) /\ UNCHANGED clock

(* the engine with the display IC on the other end of DIO: the IC pulls DIO
   low in the ACK slot, leaves it alone, or holds it low all the time *)
EngWithIC(x) ==
  [Eng EXCEPT !.bus = [clk |-> clk, dio |-> dio, wire |-> wire, high |-> drivenHigh,
                       ic |-> x]]

(* one call of update() with the IC behaving as x *)
UpdateWithIC(x) ==
  \E R \in { update(EngWithIC(x), millis, micros) } : Store(R) /\ UNCHANGED clock

(* the hardware timer of the interrupt example: the alarm comes every 100 us
   of the free-running timer and its handler calls update(); the alarms that
   find the engine idle are left to TickIdle *)
onDisplayTimer ==
  /\ inFlight
  /\ \E c \in { Advance(clock, TIMER_PERIOD_US - (clock.loop % TIMER_PERIOD_US)) } :
       \E R \in { update(Eng, c.ms, c.us) } : Store(R) /\ clock' = c

----------------------------------------------------------------------------
(* Actions of the main context *)

(* the loop has new content for the display once per period *)
Pending == calls < MaxCalls /\ clock.loop = 0

(* isIdle(); the loop, when it is the caller and has new content, goes on to
   call setSegments (pc = 124) only when the answer is idle *)
IsIdle ==
  /\ ret' = isIdle
  /\ pc' = IF pc = 0 /\ isIdle /\ Pending THEN 124 ELSE pc
  /\ UNCHANGED << engine, lines, clock, segments, length, pos, lengthArg, branch, calls,
                  bTouched, call >>

SetBrightness(brightness, on) ==
  /\ pc = 0
  /\ m_brightness' = (brightness % 8) + (IF on THEN 8 ELSE 0)
  /\ bTouched' = TRUE
  /\ UNCHANGED << m_segments, m_length, m_pos, m_counter, m_phase, m_byte, m_bit_count,
                  m_currentSegment, m_lastUpdateMicros, m_transmissionStartMillis,
                  lines, clock, pc, segments, length, pos, lengthArg, ret, branch, calls,
                  call >>

(* lines 139-161: the forced stop condition and the start condition *)
RecoveryLines == {139, 140, 141, 142, 143, 144, 146, 150, 152, 156, 159, 160, 161}

Recovery_DioFirst(line) ==
  CASE line = 139 -> [op |-> "pinMode", pin |-> "dio", mode |-> "OUTPUT", val |-> 0, next |-> 140]
    [] line = 140 -> [op |-> "digitalWrite", pin |-> "dio", mode |-> "", val |-> 0, next |-> 141]
    [] line = 141 -> [op |-> "delay", pin |-> "", mode |-> "", val |-> 5, next |-> 142]
    [] line = 142 -> [op |-> "pinMode", pin |-> "clk", mode |-> "OUTPUT", val |-> 0, next |-> 143]
    [] line = 143 -> [op |-> "digitalWrite", pin |-> "clk", mode |-> "", val |-> 0, next |-> 144]
    [] line = 144 -> [op |-> "delay", pin |-> "", mode |-> "", val |-> 5, next |-> 146]
    [] line = 146 -> [op |-> "pinMode", pin |-> "clk", mode |-> "INPUT_PULLUP", val |-> 0, next |-> 150]
    [] line = 150 -> [op |-> "delay", pin |-> "", mode |-> "", val |-> 5, next |-> 152]
    [] line = 152 -> [op |-> "pinMode", pin |-> "dio", mode |-> "INPUT_PULLUP", val |-> 0, next |-> 156]
    [] line = 156 -> [op |-> "delay", pin |-> "", mode |-> "", val |-> 1200, next |-> 159]
    [] line = 159 -> [op |-> "pinMode", pin |-> "dio", mode |-> "OUTPUT", val |-> 0, next |-> 160]
    [] line = 160 -> [op |-> "digitalWrite", pin |-> "dio", mode |-> "", val |-> 0, next |-> 161]
    [] line = 161 -> [op |-> "delay", pin |-> "", mode |-> "", val |-> 10, next |-> 163]

Recovery(line) ==
  CASE line = 139 -> [op |-> "pinMode", pin |-> "clk", mode |-> "OUTPUT", val |-> 0, next |-> 140]
    [] line = 140 -> [op |-> "digitalWrite", pin |-> "clk", mode |-> "", val |-> 0, next |-> 141]
    [] line = 141 -> [op |-> "delay", pin |-> "", mode |-> "", val |-> 5, next |-> 142]
    [] line = 142 -> [op |-> "pinMode", pin |-> "dio", mode |-> "OUTPUT", val |-> 0, next |-> 143]
    [] line = 143 -> [op |-> "digitalWrite", pin |-> "dio", mode |-> "", val |-> 0, next |-> 144]
    [] line = 144 -> [op |-> "delay", pin |-> "", mode |-> "", val |-> 5, next |-> 146]
    [] line = 146 -> [op |-> "pinMode", pin |-> "clk", mode |-> "INPUT_PULLUP", val |-> 0, next |-> 150]
    [] line = 150 -> [op |-> "delay", pin |-> "", mode |-> "", val |-> 5, next |-> 152]
    [] line = 152 -> [op |-> "pinMode", pin |-> "dio", mode |-> "INPUT_PULLUP", val |-> 0, next |-> 156]
    [] line = 156 -> [op |-> "delay", pin |-> "", mode |-> "", val |-> 1200, next |-> 159]
    [] line = 159 -> [op |-> "pinMode", pin |-> "dio", mode |-> "OUTPUT", val |-> 0, next |-> 160]
    [] line = 160 -> [op |-> "digitalWrite", pin |-> "dio", mode |-> "", val |-> 0, next |-> 161]
    [] line = 161 -> [op |-> "delay", pin |-> "", mode |-> "", val |-> 10, next |-> 163]

(* lines 139-161 run from `line` to the end: the bus and the timer after them *)
RECURSIVE RunRecovery(_, _, _)
RunRecovery(bus, c, line) ==
  IF line \notin RecoveryLines THEN [bus |-> bus, clock |-> c]
  ELSE LET st == Recovery(line)
       IN  CASE st.op = "pinMode" ->
                  RunRecovery(pinMode(bus, st.pin, st.mode), c, st.next)
             [] st.op = "digitalWrite" ->
                  RunRecovery(digitalWrite(bus, st.pin, st.val), c, st.next)
             [] st.op = "delay" ->
                  RunRecovery(bus, Advance(c, st.val), st.next)

(* line 130 *)
Clamp_ToThree(l) == IF l > 3 THEN 3 ELSE l

Clamp(l) == IF l > 4 THEN 4 ELSE l

(* setSegments as one step of the cooperative loop, which nothing interrupts *)
setSegments(a, l, p) ==
  /\ pc = 124
  /\ \E len \in { Clamp(l) },
        R \in { RunRecovery([Bus EXCEPT !.wire = << >>], clock, 139) } :
      /\ segments' = a /\ length' = len /\ pos' = p /\ lengthArg' = l
      /\ m_segments' = [i \in 1..4 |-> IF i <= len THEN a[i] ELSE 0]
      /\ m_pos' = p
      /\ m_length' = len
      /\ SetBus(R.bus)
      /\ clock' = R.clock
      /\ m_lastUpdateMicros' = R.clock.us
      /\ m_transmissionStartMillis' = R.clock.ms
      /\ m_phase' = 0
      /\ m_bit_count' = 0
      /\ m_byte' = TM1637_I2C_COMM1
      /\ m_counter' = 0
      /\ calls' = calls + 1
      /\ bTouched' = FALSE
      /\ branch' = "none"
      /\ pc' = 0
      /\ UNCHANGED << m_brightness, m_currentSegment, ret >>

(* the sketch calls setSegments itself *)
SetSegments(a, l, p) == setSegments(a, l, p) /\ UNCHANGED call

(* clear(): setSegments with four blank digits and the default length 4 and
   position 0; the record keeps the brightness stored at the call *)
Clear ==
  /\ setSegments(<< 0, 0, 0, 0 >>, 4, 0)
  /\ call' = [NoCall EXCEPT !.fn = "clear", !.length = 4, !.brightness = m_brightness]

(* The display calls of the sketch: each computes its array and hands it to
   setSegments; the record keeps the arguments of the call. *)

(* a write outside digits[4] is undefined behaviour: the array handed to
   setSegments is then what the writes inside it left, or anything else *)
AfterOverrun(r, stack) == IF r.outside THEN { r.segments, stack } ELSE { r.segments }

ShowNumberDec(num, leading_zero, len, position) ==
  /\ pc = 124
  /\ \E stack \in Stacks :
      LET r == showNumberDec(num, leading_zero, len, position, stack)
      IN  /\ \E a \in AfterOverrun(r, stack) : setSegments(a, r.length, r.pos)
          /\ call' = [NoCall EXCEPT !.fn = "showNumberDec", !.num = num,
                                    !.leading_zero = leading_zero,
                                    !.length = len, !.pos = position,
                                    !.outside = r.outside]

ShowNumberDecEx(num, dots, leading_zero, len, position) ==
  /\ pc = 124
  /\ \E stack \in Stacks :
      LET r == showNumberDecEx(num, dots, leading_zero, len, position, stack)
      IN  /\ \E a \in AfterOverrun(r, stack) : setSegments(a, r.length, r.pos)
          /\ call' = [NoCall EXCEPT !.fn = "showNumberDecEx", !.num = num, !.dots = dots,
                                    !.leading_zero = leading_zero,
                                    !.length = len, !.pos = position,
                                    !.outside = r.outside]

ShowNumberHexEx(num, dots, leading_zero, len, position) ==
  /\ pc = 124
  /\ \E stack \in Stacks :
      LET r == showNumberHexEx(num, dots, leading_zero, len, position, stack)
      IN  /\ \E a \in AfterOverrun(r, stack) : setSegments(a, r.length, r.pos)
          /\ call' = [NoCall EXCEPT !.fn = "showNumberHexEx", !.num = num, !.dots = dots,
                                    !.leading_zero = leading_zero,
                                    !.length = len, !.pos = position,
                                    !.outside = r.outside]

DisplayText(text, position) ==
  LET r == displayText(text, position)
  IN  /\ setSegments(r.segments, r.length, r.pos)
      /\ call' = [NoCall EXCEPT !.fn = "displayText", !.text = text, !.pos = position,
                                !.outside = r.outside]

DisplayCharAndNumber(c, number) ==
  LET r == displayCharAndNumber(c, number)
  IN  /\ setSegments(r.segments, r.length, r.pos)
      /\ call' = [NoCall EXCEPT !.fn = "displayCharAndNumber", !.c = c, !.num = number]

(* charToSeg touches no member; the record keeps what it returned *)
CharToSeg(c) ==
  /\ pc = 124
  /\ call' = [NoCall EXCEPT !.fn = "charToSeg", !.c = c, !.result = charToSeg(c)]
  /\ UNCHANGED << engine, lines, clock, pc, segments, length, pos, lengthArg, ret,
                  branch, calls, bTouched >>

(* setSegments, statement by statement, as the timer interrupt sees it; the
   name gives the source line *)

MarkIdle(a, l, p) ==
  /\ segments' = a /\ length' = l /\ pos' = p /\ lengthArg' = l
  /\ m_counter' = IDLE
  /\ calls' = calls + 1
  /\ wire' = << >>
  /\ bTouched' = FALSE
  /\ branch' = "none"
  /\ pc' = 129
  /\ UNCHANGED << m_brightness, m_segments, m_length, m_pos, m_phase, m_byte,
                  m_bit_count, m_currentSegment, m_lastUpdateMicros,
                  m_transmissionStartMillis, clk, dio, drivenHigh, ret, call >>

SS_126_MarkIdle(a, l, p) ==
  /\ pc = 124
  /\ MarkIdle(a, l, p)
  /\ UNCHANGED clock

(* the test sketch refreshes a value every 30 ms without asking isIdle: the
   loop is held up until the refresh is due and then calls setSegments,
   wherever the transmission in flight has got to *)
Overdue(a, l, p) ==
  /\ pc = 0
  /\ inFlight
  /\ clock.loop < REFRESH_MS * 1000
  /\ MarkIdle(a, l, p)
  /\ clock' = Advance(clock, REFRESH_MS * 1000 - clock.loop)

SS_129_Memset ==
  /\ pc = 129
  /\ m_segments' = << 0, 0, 0, 0 >>
  /\ pc' = 130
  /\ UNCHANGED << m_brightness, m_length, m_pos, m_counter, m_phase, m_byte, m_bit_count,
                  m_currentSegment, m_lastUpdateMicros, m_transmissionStartMillis,
                  lines, clock, segments, length, pos, lengthArg, ret, branch, calls,
                  bTouched, call >>

SS_130_Clamp ==
  /\ pc = 130
  /\ length' = Clamp(length)
  /\ pc' = 131
  /\ UNCHANGED << engine, lines, clock, segments, pos, lengthArg, ret, branch, calls,
                  bTouched, call >>

SS_131_Memcpy ==
  /\ pc = 131
  /\ m_segments' = [i \in 1..4 |-> IF i <= length THEN segments[i] ELSE m_segments[i]]
  /\ pc' = 133
  /\ UNCHANGED << m_brightness, m_length, m_pos, m_counter, m_phase, m_byte, m_bit_count,
                  m_currentSegment, m_lastUpdateMicros, m_transmissionStartMillis,
                  lines, clock, segments, length, pos, lengthArg, ret, branch, calls,
                  bTouched, call >>

SS_133_StorePos ==
  /\ pc = 133
  /\ m_pos' = pos
  /\ pc' = 134
  /\ UNCHANGED << m_brightness, m_segments, m_length, m_counter, m_phase, m_byte,
                  m_bit_count, m_currentSegment, m_lastUpdateMicros,
                  m_transmissionStartMillis, lines, clock, segments, length, pos, lengthArg, ret,
                  branch, calls, bTouched, call >>

SS_134_StoreLength ==
  /\ pc = 134
  /\ m_length' = length
  /\ pc' = 139
  /\ UNCHANGED << m_brightness, m_segments, m_pos, m_counter, m_phase, m_byte,
                  m_bit_count, m_currentSegment, m_lastUpdateMicros,
                  m_transmissionStartMillis, lines, clock, segments, length, pos, lengthArg, ret,
                  branch, calls, bTouched, call >>

SS_PinMode ==
  /\ pc \in RecoveryLines
  /\ Recovery(pc).op = "pinMode"
  /\ SetBus(pinMode(Bus, Recovery(pc).pin, Recovery(pc).mode))
  /\ pc' = Recovery(pc).next
  /\ UNCHANGED << engine, clock, segments, length, pos, lengthArg, ret, branch, calls,
                  bTouched, call >>

SS_DigitalWrite ==
  /\ pc \in RecoveryLines
  /\ Recovery(pc).op = "digitalWrite"
  /\ SetBus(digitalWrite(Bus, Recovery(pc).pin, Recovery(pc).val))
  /\ pc' = Recovery(pc).next
  /\ UNCHANGED << engine, clock, segments, length, pos, lengthArg, ret, branch, calls,
                  bTouched, call >>

SS_DelayMicroseconds ==
  /\ pc \in RecoveryLines
  /\ Recovery(pc).op = "delay"
  /\ clock' = Advance(clock, Recovery(pc).val)
  /\ pc' = Recovery(pc).next
  /\ UNCHANGED << engine, lines, segments, length, pos, lengthArg, ret, branch, calls,
                  bTouched, call >>

SS_163_StampMicros_ArmsEarly ==
  /\ pc = 163
  /\ m_lastUpdateMicros' = micros
  /\ m_counter' = 0
  /\ pc' = 164
  /\ UNCHANGED << m_brightness, m_segments, m_length, m_pos, m_phase, m_byte,
                  m_bit_count, m_currentSegment, m_transmissionStartMillis,
                  lines, clock, segments, length, pos, lengthArg, ret, branch, calls,
                  bTouched, call >>

SS_163_StampMicros ==
  /\ pc = 163
  /\ m_lastUpdateMicros' = micros
  /\ pc' = 164
  /\ UNCHANGED << m_brightness, m_segments, m_length, m_pos, m_counter, m_phase, m_byte,
                  m_bit_count, m_currentSegment, m_transmissionStartMillis,
                  lines, clock, segments, length, pos, lengthArg, ret, branch, calls,
                  bTouched, call >>

SS_164_StampMillis ==
  /\ pc = 164
  /\ m_transmissionStartMillis' = millis
  /\ pc' = 168
  /\ UNCHANGED << m_brightness, m_segments, m_length, m_pos, m_counter, m_phase, m_byte,
                  m_bit_count, m_currentSegment, m_lastUpdateMicros,
                  lines, clock, segments, length, pos, lengthArg, ret, branch, calls,
                  bTouched, call >>

SS_168_Phase_ArmsEarly ==
  /\ pc = 168
  /\ m_phase' = 0
  /\ m_counter' = 0
  /\ pc' = 169
  /\ UNCHANGED << m_brightness, m_segments, m_length, m_pos, m_byte,
                  m_bit_count, m_currentSegment, m_lastUpdateMicros,
                  m_transmissionStartMillis, lines, clock, segments, length, pos, lengthArg, ret,
                  branch, calls, bTouched, call >>

SS_168_Phase ==
  /\ pc = 168
  /\ m_phase' = 0
  /\ pc' = 169
  /\ UNCHANGED << m_brightness, m_segments, m_length, m_pos, m_counter, m_byte,
                  m_bit_count, m_currentSegment, m_lastUpdateMicros,
                  m_transmissionStartMillis, lines, clock, segments, length, pos, lengthArg, ret,
                  branch, calls, bTouched, call >>

SS_169_BitCount_Keeps ==
  /\ pc = 169
  /\ pc' = 170
  /\ UNCHANGED << engine, lines, clock, segments, length, pos, lengthArg, ret, branch,
                  calls, bTouched, call >>

SS_169_BitCount ==
  /\ pc = 169
  /\ m_bit_count' = 0
  /\ pc' = 170
  /\ UNCHANGED << m_brightness, m_segments, m_length, m_pos, m_counter, m_phase, m_byte,
                  m_currentSegment, m_lastUpdateMicros, m_transmissionStartMillis,
                  lines, clock, segments, length, pos, lengthArg, ret, branch, calls,
                  bTouched, call >>

SS_170_Byte ==
  /\ pc = 170
  /\ m_byte' = TM1637_I2C_COMM1
  /\ pc' = 171
  /\ UNCHANGED << m_brightness, m_segments, m_length, m_pos, m_counter, m_phase,
                  m_bit_count, m_currentSegment, m_lastUpdateMicros,
                  m_transmissionStartMillis, lines, clock, segments, length, pos, lengthArg, ret,
                  branch, calls, bTouched, call >>

SS_171_Arm ==
  /\ pc = 171
  /\ m_counter' = 0
  /\ pc' = 0
  /\ UNCHANGED << m_brightness, m_segments, m_length, m_pos, m_phase, m_byte,
                  m_bit_count, m_currentSegment, m_lastUpdateMicros,
                  m_transmissionStartMillis, lines, clock, segments, length, pos, lengthArg, ret,
                  branch, calls, bTouched, call >>

----------------------------------------------------------------------------
(* The passage of time *)

(* a short wait between two update() calls of a transmission *)
TickMicros(d) ==
  /\ inFlight
  /\ ULess(USub(micros, m_lastUpdateMicros), d + 1)
  /\ clock' = Advance(clock, d)
  /\ UNCHANGED << engine, lines, pc, segments, length, pos, lengthArg, ret, branch, calls,
                  bTouched, call >>

(* a long stall of the stepping context during a transmission *)
TickMillis(d) ==
  /\ inFlight
  /\ ULess(USub(micros, m_lastUpdateMicros), 1)
  /\ ULess(USub(millis, m_transmissionStartMillis), d \div 1000 + 1)
  /\ clock' = Advance(clock, d)
  /\ UNCHANGED << engine, lines, pc, segments, length, pos, lengthArg, ret, branch, calls,
                  bTouched, call >>

(* the two tests of update() on elapsed time, lines 183-196, made d time units
   after the timestamp t0 was recorded: the watchdog test on the millisecond
   counter and the rate-limit test on the microsecond counter *)
ElapsedTests(t0, d) ==
  /\ pc = 124
  /\ call' = [NoCall EXCEPT !.fn = "update", !.stamp = t0, !.num = d,
                            !.expired = WatchdogExpired(UAdd(t0, d), t0),
                            !.limited = RateLimited(UAdd(t0, d), t0)]
  /\ UNCHANGED << engine, lines, clock, pc, segments, length, pos, lengthArg, ret,
                  branch, calls, bTouched >>

(* the main context spends d microseconds between its isIdle() call and its
   setSegments call, and no timer alarm falls into them *)
LoopWork(d) ==
  /\ pc = 124
  /\ (clock.loop % TIMER_PERIOD_US) + d < TIMER_PERIOD_US
  /\ clock' = Advance(clock, d)
  /\ UNCHANGED << engine, lines, pc, segments, length, pos, lengthArg, ret, branch, calls,
                  bTouched, call >>

(* with the display idle, time passes until the loop has new content *)
TickIdle ==
  /\ ~inFlight
  /\ pc = 0
  /\ calls < MaxCalls
  /\ clock.loop # 0
  /\ clock' = Advance(clock, LOOP_PERIOD_MS * 1000 - clock.loop)
  /\ UNCHANGED << engine, lines, pc, segments, length, pos, lengthArg, ret, branch, calls,
                  bTouched, call >>

----------------------------------------------------------------------------

(* the cooperative loop: one context makes every call *)
Next ==
  \/ Update
  \/ IsIdle
  \/ \E b \in BrightnessInputs : SetBrightness(b[1], b[2])
  \/ \E i \in SegmentInputs : SetSegments(i[1], i[2], i[3])
  \/ \E d \in MicrosTicks : TickMicros(d)
  \/ \E d \in MillisTicks : TickMillis(d)
  \/ TickIdle

Spec == Init /\ [][Next]_vars

(* the timer interrupt calls update() between any two statements of the main
   context, which polls isIdle() and calls setSegments *)
NextISR ==
  \/ Update
  \/ IsIdle
  \/ \E i \in SegmentInputs : SS_126_MarkIdle(i[1], i[2], i[3])
  \/ SS_129_Memset
  \/ SS_130_Clamp
  \/ SS_131_Memcpy
  \/ SS_133_StorePos
  \/ SS_134_StoreLength
  \/ SS_PinMode
  \/ SS_DigitalWrite
  \/ SS_DelayMicroseconds
  \/ SS_163_StampMicros
  \/ SS_164_StampMillis
  \/ SS_168_Phase
  \/ SS_169_BitCount
  \/ SS_170_Byte
  \/ SS_171_Arm
  \/ \E d \in MicrosTicks : TickMicros(d)
  \/ TickIdle

SpecISR == Init /\ [][NextISR]_vars

(* the loop of a sketch that shows numbers and text: what each display call
   hands to the engine *)
NextEnc ==
  \/ IsIdle
  \/ \E n \in Numbers, z \in BOOLEAN, l \in DisplayLengths, p \in Positions :
        ShowNumberDec(n, z, l, p)
  \/ \E n \in Numbers, d \in DotMasks, z \in BOOLEAN, l \in DisplayLengths :
        ShowNumberDecEx(n, d, z, l, 0)
  \/ \E n \in HexNumbers, d \in DotMasks, z \in BOOLEAN, l \in DisplayLengths :
        ShowNumberHexEx(n, d, z, l, 0)
  \/ \E t \in Texts, p \in TextPositions : DisplayText(t, p)
  \/ \E c \in LeadChars, n \in Numbers : DisplayCharAndNumber(c, n)
  \/ TickIdle

SpecEnc == Init /\ [][NextEnc]_vars

(* the loop of a sketch that looks up the segments of characters *)
NextChar ==
  \/ IsIdle
  \/ \E c \in Chars : CharToSeg(c)
  \/ TickIdle

SpecChar == Init /\ [][NextChar]_vars

(* the cooperative loop with the display IC acting on DIO *)
NextIC ==
  \/ \E x \in ICBehaviours : UpdateWithIC(x)
  \/ IsIdle
  \/ \E i \in SegmentInputs : SetSegments(i[1], i[2], i[3])
  \/ \E d \in MicrosTicks : TickMicros(d)
  \/ \E d \in MillisTicks : TickMillis(d)
  \/ TickIdle

SpecIC == Init /\ [][NextIC]_vars

(* the tests of update() on elapsed time, for timestamps and readings of the
   free-running counters *)
NextWrap ==
  \/ IsIdle
  \/ \E t0 \in Stamps, d \in ElapsedTimes : ElapsedTests(t0, d)
  \/ TickIdle

SpecWrap == Init /\ [][NextWrap]_vars

(* the interrupt example: update() is called by the 100 us timer only, the
   loop asks isIdle() and calls setSegments at any point of the timer period *)
NextTimer ==
  \/ onDisplayTimer
  \/ IsIdle
  \/ \E d \in WorkTimes : LoopWork(d)
  \/ \E i \in SegmentInputs : SetSegments(i[1], i[2], i[3])
  \/ TickIdle

SpecTimer == Init /\ [][NextTimer]_vars

(* a sketch that also begins a new transmission while one is in flight *)
NextRestart ==
  \/ Update
  \/ IsIdle
  \/ \E i \in RestartInputs : SS_126_MarkIdle(i[1], i[2], i[3])
  \/ \E i \in RestartInputs : Overdue(i[1], i[2], i[3])
  \/ SS_129_Memset
  \/ SS_130_Clamp
  \/ SS_131_Memcpy
  \/ SS_133_StorePos
  \/ SS_134_StoreLength
  \/ SS_PinMode
  \/ SS_DigitalWrite
  \/ SS_DelayMicroseconds
  \/ SS_163_StampMicros
  \/ SS_164_StampMillis
  \/ SS_168_Phase
  \/ SS_169_BitCount
  \/ SS_170_Byte
  \/ SS_171_Arm
  \/ \E d \in MicrosTicks : TickMicros(d)
  \/ TickIdle

SpecRestart == Init /\ [][NextRestart]_vars

(* the cooperative loop that clears the display and sets the brightness, in
   any order and at any time *)
NextBright ==
  \/ Update
  \/ IsIdle
  \/ \E b \in BrightnessInputs : SetBrightness(b[1], b[2])
  \/ Clear
  \/ \E d \in MicrosTicks : TickMicros(d)
  \/ TickIdle

SpecBright == Init /\ [][NextBright]_vars

(* the cooperative loop of the test sketch, which leaves the brightness alone,
   when it keeps calling update() and the microsecond timer keeps running
   between the calls *)
NextLive ==
  \/ Update
  \/ IsIdle
  \/ \E i \in SegmentInputs : SetSegments(i[1], i[2], i[3])
  \/ \E d \in MicrosTicks : TickMicros(d)
  \/ \E d \in MillisTicks : TickMillis(d)
  \/ TickIdle

Fairness == WF_vars(Update) /\ WF_vars(\E d \in MicrosTicks : TickMicros(d))

SpecLive == Init /\ [][NextLive]_vars /\ Fairness

----------------------------------------------------------------------------
(* What a frame looks like on the two lines, in the events of `wire'.
   A byte is eight clock pulses, least significant bit first, and a ninth
   pulse for the acknowledge, during which DIO is released and reads high.
   A STOP is DIO rising while CLK is high, which is preceded by CLK rising
   while DIO is still low. *)

RECURSIVE BitsLSB(_, _)
BitsLSB(b, n) == IF n = 0 THEN << >> ELSE << Bit(b % 2) >> \o BitsLSB(b \div 2, n - 1)

ByteOnWire(b) == BitsLSB(b, 8) \o << "1" >>

StartOnWire == << "START" >>

StopOnWire == << "0", "STOP" >>

RECURSIVE DataOnWire(_, _, _)
DataOnWire(segs, i, n) ==
  IF i > n THEN << >> ELSE ByteOnWire(segs[i]) \o DataOnWire(segs, i + 1, n)

FrameOnWire(segs, L, P, B) ==
  StartOnWire \o ByteOnWire(64) \o StopOnWire
    \o StartOnWire \o ByteOnWire(192 + (P % 4)) \o DataOnWire(segs, 1, L) \o StopOnWire
    \o StartOnWire \o ByteOnWire(128 + (B % 16)) \o StopOnWire

(* a transmission has just completed and the brightness was not set during it *)
Completed == branch = "done" /\ ~bTouched

----------------------------------------------------------------------------
(* C1 as stated: from idle, setSegments(segments, L, P) with L in 1..4 and
   update() until it returns true put on the lines exactly START, 0x40, STOP,
   START, 0xC0|(P&3), segments[0..L-1], STOP, START, 0x80|(B&0x0F), STOP, and
   no other byte, START or STOP. *)
C1_AsStated ==
  (Completed /\ lengthArg \in 1..4)
    => wire = FrameOnWire(segments, lengthArg, pos, m_brightness)

(* C1: from idle, setSegments(segments, L, P) with L in 1..4 and update()
   until it returns true put on the lines the STOP of the bus recovery and then
   exactly START, 0x40, STOP, START, 0xC0|(P&3), segments[0..L-1], STOP, START,
   0x80|(B&0x0F), STOP, each byte least significant bit first with one
   acknowledge pulse, and nothing else. *)
C1_FrameAfterRecoveryStop ==
  (Completed /\ lengthArg \in 1..4)
    => wire = StopOnWire \o FrameOnWire(segments, lengthArg, pos, m_brightness)

C1_Witness ==
  /\ Completed /\ lengthArg = 3 /\ pos = 6
  /\ wire = StopOnWire \o FrameOnWire(<< 255, 0, 128, 1 >>, 3, 2, 15)

----------------------------------------------------------------------------
(* the main context is inside setSegments, after line 126 and before the
   statement of line 171 has run *)
InCall == pc \notin {0, 124}

(* what lines 129-131 leave in m_segments *)
Copied(a, n) == [i \in 1..4 |-> IF i <= n THEN a[i] ELSE 0]

(* C2: setSegments writes m_counter = 255 first and m_counter = 0 last, after
   the segment copy, the bus-recovery writes, both timestamps, the phase, the
   bit count and the first byte are in place; an update() that preempts it
   between those two writes returns true and changes neither the engine
   state nor the bus lines. *)
C2_IdleFirstArmLast ==
  [][ /\ (pc = 124 /\ pc' # 124) =>
            /\ m_counter' = 255
            /\ UNCHANGED << m_brightness, m_segments, m_length, m_pos, m_phase, m_byte,
                            m_bit_count, m_currentSegment, m_lastUpdateMicros,
                            m_transmissionStartMillis, clk, dio >>
      /\ (InCall /\ pc' # 0) => m_counter' = 255
      /\ (InCall /\ pc' = 0) =>
            /\ m_counter = 255 /\ m_counter' = 0
            /\ UNCHANGED << m_brightness, m_segments, m_length, m_pos, m_phase, m_byte,
                            m_bit_count, m_currentSegment, m_lastUpdateMicros,
                            m_transmissionStartMillis, clk, dio, wire >>
            /\ m_segments = Copied(segments, length)
            /\ m_pos = pos /\ m_length = length
            /\ wire = StopOnWire \o StartOnWire
            /\ Level(clk) = 1 /\ Level(dio) = 0
            /\ m_lastUpdateMicros = micros /\ m_transmissionStartMillis = millis
            /\ m_phase = 0 /\ m_bit_count = 0 /\ m_byte = 64
      /\ (InCall /\ Update) => (ret' = TRUE /\ UNCHANGED << engine, lines >>)
    ]_vars

C2_Witness == pc = 159 /\ branch = "idle" /\ ret = TRUE /\ m_counter = 255

(* C3: with update() called only from the timer interrupt and setSegments only
   after isIdle() returned true, update() changes the bus lines only outside
   setSegments, the statements of setSegments run only with the engine idle,
   the engine in flight holds the bytes, length and position of the call, and
   the completed frame carries exactly them. *)
C3_NoInterleavingExactFrame ==
  [][ /\ (Update /\ << clk, dio, wire >>' # << clk, dio, wire >>) => (pc = 0 /\ inFlight)
      /\ (pc # 0 /\ pc' # pc) => ~inFlight
      /\ inFlight' =>
            (m_segments' = Copied(segments', length') /\ m_pos' = pos'
               /\ m_length' = length')
      /\ (Completed' /\ lengthArg' \in 1..4) =>
            wire' = StopOnWire \o FrameOnWire(segments', lengthArg', pos', m_brightness')
    ]_vars

C3_Witness ==
  /\ Completed /\ pc = 0 /\ lengthArg = 2
  /\ wire = StopOnWire \o FrameOnWire(<< 63, 6, 91, 79 >>, 2, 1, 15)

----------------------------------------------------------------------------
(* milliseconds since line 164 recorded the start, microseconds since the
   last sub-step or line 163 *)
SinceStartMillis == USub(millis, m_transmissionStartMillis)

SinceStepMicros == USub(micros, m_lastUpdateMicros)

(* C4: with the engine idle, after construction, after a completed
   transmission or after a watchdog abort, every update() call returns true
   and changes neither the bus lines nor the engine state. *)
C4_IdleUpdateIsNoOp ==
  [][ (~inFlight /\ Update) => (ret' = TRUE /\ UNCHANGED << engine, lines >>) ]_vars

C4_Witness ==
  /\ m_counter = 255 /\ branch = "idle" /\ ret = TRUE
  /\ calls = 1 /\ Level(clk) = 0

(* C5: an update() call made in flight more than 50 ms after setSegments
   recorded the start forces the engine idle, performs no sub-step (no other
   engine field and no bus line changes) and returns true, as a completed
   transmission does. *)
C5_WatchdogForcesIdle ==
  [][ (inFlight /\ UGreater(SinceStartMillis, 50) /\ Update) =>
        /\ m_counter' = 255
        /\ ret' = TRUE
        /\ UNCHANGED << m_brightness, m_segments, m_length, m_pos, m_phase, m_byte,
                        m_bit_count, m_currentSegment, m_lastUpdateMicros,
                        m_transmissionStartMillis, lines >>
    ]_vars

C5_Witness ==
  /\ branch = "watchdog" /\ ret = TRUE /\ m_counter = 255
  /\ m_phase = 4 /\ Level(clk) = 0

(* C6: an update() call made in flight, with the watchdog not expired and
   fewer than 50 microseconds since the last sub-step or since setSegments,
   returns false and changes nothing, neither a bus line nor any engine
   field. *)
C6_RateLimitedChangesNothing ==
  [][ (inFlight /\ ~UGreater(SinceStartMillis, 50) /\ ULess(SinceStepMicros, 50)
         /\ Update)
        => (ret' = FALSE /\ UNCHANGED << engine, lines >>) ]_vars

C6_Witness ==
  /\ branch = "rate" /\ ret = FALSE /\ inFlight
  /\ SinceStepMicros = U32(0, 25) /\ m_phase = 3

(* C7: once setSegments has armed the engine, a loop that keeps calling
   update() while the timers run gets true from it in the end, by the final
   stop condition or by the watchdog. *)
C7_UpdateEventuallyTrue ==
  inFlight ~> (ret = TRUE /\ branch \in {"done", "watchdog"})

C7_Witness == branch = "done" /\ ret = TRUE /\ calls = 1 /\ lengthArg = 5

(* C8: update() returns true exactly when the engine is idle as the call
   returns: it was idle already, the final stop condition has just completed,
   or the watchdog fired; a rate-limited call and every sub-step before the
   last return false with the engine in flight. *)
C8_TrueIffIdle ==
  [][ Update =>
        /\ ret' = TRUE <=> m_counter' = 255
        /\ ret' = TRUE <=> branch' \in {"idle", "done", "watchdog"}
        /\ ret' = FALSE <=> branch' \in {"rate", "step"}
    ]_vars

C8_Witness ==
  /\ branch = "done" /\ ret = TRUE /\ m_counter = 255
  /\ m_phase = 8 /\ Level(clk) = 1 /\ Level(dio) = 1

(* C9: isIdle() returns true exactly when m_counter is 255 and changes no
   engine field and no bus line, whether the loop calls it or the interrupt
   does while the loop is inside setSegments. *)
C9_IsIdleIsPureRead ==
  [][ IsIdle => (ret' = (m_counter = 255) /\ UNCHANGED << engine, lines >>) ]_vars

C9_Witness == m_counter # 255 /\ ret = FALSE /\ branch = "none" /\ pc = 0

(* C10: in every reachable state CLK and DIO are each released or driven low,
   and no write of the constructor, setSegments or update() has driven either
   of them high, not even between two writes of one operation. *)
C10_NeverDrivenHigh ==
  /\ ~drivenHigh
  /\ \A p \in {clk, dio} :
        \/ p.mode \in {"INPUT", "INPUT_PULLUP"}
        \/ p.mode = "OUTPUT" /\ p.latch = 0

C10_Witness ==
  /\ inFlight /\ clk.mode = "OUTPUT" /\ dio.mode = "OUTPUT"
  /\ clk.latch = 0 /\ dio.latch = 0

----------------------------------------------------------------------------
(* the address byte of a frame: the ninth to the seventeenth clock pulse,
   after STOP, START, the first byte, STOP and START *)
AddressOnWire == SubSeq(wire, 16, 24)

(* C11: setSegments takes a length above 4 as 4, copying 4 bytes and
   transmitting 4 data bytes, and puts any position into the address byte as
   0xC0 | (position & 3); the transmission runs as for any other call. *)
C11_LengthClampedPositionMasked ==
  /\ calls > 0 =>
        /\ m_length = (IF lengthArg > 4 THEN 4 ELSE lengthArg)
        /\ m_segments = Copied(segments, m_length)
        /\ m_pos = pos
  /\ (Completed /\ lengthArg > 4) =>
        wire = StopOnWire \o FrameOnWire(segments, 4, pos, m_brightness)
  /\ Completed => AddressOnWire = ByteOnWire(192 + (pos % 4))

C11_Witness ==
  /\ Completed /\ lengthArg = 5 /\ m_length = 4
  /\ wire = StopOnWire \o FrameOnWire(<< 255, 0, 128, 1 >>, 4, 0, m_brightness)

----------------------------------------------------------------------------
(* the control byte of a completed frame: the nine clock pulses before the
   final STOP *)
ControlOnWire == SubSeq(wire, Len(wire) - 10, Len(wire) - 2)

(* C12 as stated: setBrightness changes only the stored byte, and the
   transmission a call began carries the brightness stored when it began,
   never a value set after it. *)
C12_AsStated ==
  (branch = "done" /\ call.fn = "clear")
    => ControlOnWire = ByteOnWire(128 + (call.brightness % 16))

(* a frame completed with a control byte set after the call that began it *)
C12_Witness ==
  /\ branch = "done" /\ call.fn = "clear" /\ call.brightness = 15
  /\ ControlOnWire = ByteOnWire(128 + 11)


(* the digit the text puts at the j-th place from the right of a decimal
   display of num without leading zeros: a decimal digit of |num|, the minus
   segment at the first place the magnitude leaves free, blank further left *)
DecimalPlace(num, j) ==
  LET v == IF num < 0 THEN -num ELSE num
      r == v \div 10^j
  IN  IF r # 0 \/ j = 0 THEN digitToSegment[(r % 10) + 1]
      ELSE IF num < 0 /\ v \div 10^(j - 1) # 0 THEN minusSegments
      ELSE 0

(* C13: after showNumberDec(num, false, length, pos) the length digits handed
   to the engine are, right to left, the decimal digits of |num| with every
   leading zero blank and the minus segment where the sign falls. *)
C13_AsStated ==
  (call.fn = "showNumberDec" /\ ~call.leading_zero) =>
    /\ m_length = call.length /\ m_pos = call.pos
    /\ \A i \in 1..call.length : m_segments[i] = DecimalPlace(call.num, call.length - i)

(* 65541 does not fit the 16-bit parameter: the display shows "   5" *)
C13_Witness ==
  /\ call.fn = "showNumberDec" /\ ~call.leading_zero
  /\ call.num = 65541 /\ call.length = 4
  /\ m_segments = << 0, 0, 0, 109 >>


(* the digits the same call hands over with an empty dot mask *)
Undotted ==
  IF call.fn = "showNumberHexEx"
  THEN showNumberHexEx(call.num, 0, call.leading_zero, call.length, call.pos,
                       << 0, 0, 0, 0 >>).segments
  ELSE showNumberDecEx(call.num, 0, call.leading_zero, call.length, call.pos,
                       << 0, 0, 0, 0 >>).segments

(* bit (7 - i) of the dot mask, i counted from 0 at the leftmost digit *)
DotBit(dots, i) == (dots \div 2^(7 - i)) % 2 = 1

(* C14: after showNumberDecEx or showNumberHexEx, whatever the value and the
   leading-zero setting, digit i carries the decimal point exactly when bit
   (7 - i) of the dot mask is set, and its other seven bits are those of the
   digit without dots. *)
C14_AsStated ==
  call.fn \in { "showNumberDecEx", "showNumberHexEx" } =>
    \A i \in 1..(IF call.length > 4 THEN 4 ELSE call.length) :
      /\ (m_segments[i] >= SEG_DP) <=> DotBit(call.dots, i - 1)
      /\ m_segments[i] % SEG_DP = Undotted[i] % SEG_DP

(* value 0 without leading zeros: the dot of the second digit is not shown *)
C14_Witness ==
  /\ call.fn = "showNumberDecEx" /\ call.num = 0 /\ ~call.leading_zero
  /\ call.dots = 64 /\ call.length = 4
  /\ m_segments = << 0, 0, 0, 63 >>


(* the segments of one decimal digit *)
Glyph(d) == digitToSegment[d + 1]

(* entries 1..3 of the three-tier rule, for the magnitude a of n *)
ThreeTier(n, a) ==
  IF a < 1000
  THEN << IF n < 0 /\ a < 100 THEN SEG_G ELSE IF a >= 100 THEN Glyph(a \div 100) ELSE 0,
          IF a >= 10 THEN Glyph((a \div 10) % 10) ELSE 0,
          Glyph(a % 10) >>
  ELSE IF a <= 9999
  THEN << Glyph(a \div 1000) + SEG_DP, Glyph((a \div 100) % 10), charToSegment[11] >>
  ELSE << Glyph((a \div 10000) % 10), Glyph((a \div 1000) % 10) + SEG_DP,
          Glyph((a \div 100) % 10) >>

(* C15: displayCharAndNumber(c, n) hands the engine 4 bytes for position 0:
   charToSeg(c), then the three entries of the three-tier rule for |n|. *)
C15_CharThenThreeTierNumber ==
  call.fn = "displayCharAndNumber" =>
    /\ lengthArg = 4 /\ m_length = 4 /\ m_pos = 0
    /\ m_segments = << charToSeg(call.c) >>
                      \o ThreeTier(call.num, IF call.num < 0 THEN -call.num ELSE call.num)

(* 'F' and 1024 give F 1. 0 K *)
C15_Witness ==
  /\ call.fn = "displayCharAndNumber" /\ call.c = 70 /\ call.num = 1024
  /\ m_segments = << 113, 134, 63, 116 >>


(* C16: for a number from 1000 to 9999, displayCharAndNumber puts in entries
   1..3 the three most significant digits of the number, the decimal point on
   the first (1230 reads 1.23). *)
C16_AsStated ==
  (call.fn = "displayCharAndNumber" /\ call.num >= 1000 /\ call.num <= 9999) =>
    SubSeq(m_segments, 2, 4) = << Glyph(call.num \div 1000) + SEG_DP,
                                  Glyph((call.num \div 100) % 10),
                                  Glyph((call.num \div 10) % 10) >>

(* 1230 reads 1.2K *)
C16_Witness ==
  /\ call.fn = "displayCharAndNumber" /\ call.num = 1230
  /\ SubSeq(m_segments, 2, 4) = << 134, 91, 116 >>


Min(a, b) == IF a < b THEN a ELSE b

(* C17: displayText(text, pos) hands the engine, as 4 bytes for position 0,
   an array that is blank except entries pos .. pos+n-1, which hold the
   segments of the first n = min(length of text, 4 - pos) characters, and it
   writes no entry outside the array. *)
C17_TextClippedToArray ==
  call.fn = "displayText" =>
    LET n == Min(Len(call.text), 4 - call.pos)
    IN  /\ ~call.outside
        /\ lengthArg = 4 /\ m_length = 4 /\ m_pos = 0
        /\ \A i \in 0..3 :
              m_segments[i + 1] = IF call.pos <= i /\ i <= call.pos + n - 1
                                  THEN charToSeg(call.text[i - call.pos + 1])
                                  ELSE 0

(* "HELLO" at position 1 shows " HEL" *)
C17_Witness ==
  /\ call.fn = "displayText" /\ call.text = << 72, 69, 76, 76, 79 >> /\ call.pos = 1
  /\ m_segments = << 0, 116, 121, 56 >>


(* C18: charToSeg returns, for a letter of either case, the table entry of
   the letter (the same byte for both cases); for a digit, space and dash,
   their table entries; for every other character value, 0. *)
C18_TotalAndCaseInsensitive ==
  call.fn = "charToSeg" =>
    LET c == call.c
    IN  /\ call.result \in 0..255
        /\ c \in 65..90 => call.result = charToSegment[c - 64]
        /\ c \in 97..122 => /\ call.result = charToSegment[c - 96]
                             /\ call.result = charToSeg(c - 32)
        /\ c \in 48..57 => call.result = charToSegment[27 + c - 48]
        /\ c = 32 => call.result = charToSegment[37]
        /\ c = 45 => call.result = charToSegment[38]
        /\ c \notin (65..90) \cup (97..122) \cup (48..57) \cup { 32, 45 } =>
             call.result = 0

(* 'h' gives the byte of 'H' *)
C18_Witness == call.fn = "charToSeg" /\ call.c = 104 /\ call.result = 116


(* the sub-step at which the sub-machine of a phase reports completion: the
   last ACK sub-step of a byte write, the last of a start, the last of a stop *)
LastSubStep(p) == IF p \in { 0, 3, 4, 7 } THEN 6 ELSE IF p \in { 2, 6 } THEN 2 ELSE 3

(* update() performed a sub-step *)
Stepped == calls' = calls /\ pc' = pc /\ m_lastUpdateMicros' # m_lastUpdateMicros

(* what is on the lines when the last segment byte has been written *)
UpToData ==
  StopOnWire \o StartOnWire \o ByteOnWire(TM1637_I2C_COMM1) \o StopOnWire
    \o StartOnWire \o ByteOnWire(TM1637_I2C_COMM2 + (m_pos % 4))
    \o DataOnWire(m_segments, 1, m_length)

(* C19: within a transmission the phase changes only by one step forward,
   and only in the update() call that performs the last sub-step of the
   sub-machine of the phase; that call always moves on, except in phase 4
   while segment bytes remain; phase 4 is left when the last of the L
   segment bytes is on the lines; a transmission runs to idle from phase 8
   only.  The phase returns to 0 only when setSegments begins a new
   transmission. *)
C19_PhasesInOrder ==
  [][ /\ m_phase' # m_phase =>
           \/ calls' = calls + 1 /\ m_phase' = 0
           \/ /\ Stepped /\ inFlight /\ branch' = "step"
              /\ m_phase \in 0..7 /\ m_phase' = m_phase + 1
              /\ m_counter = LastSubStep(m_phase) /\ m_counter' = 0
              /\ m_phase = 4 => /\ m_currentSegment' >= m_length
                                /\ m_length >= 1 => /\ m_currentSegment' = m_length
                                                    /\ wire' = UpToData
      /\ (Stepped /\ m_counter = LastSubStep(m_phase) /\ m_phase \in 0..7) =>
           \/ m_phase' = m_phase + 1
           \/ m_phase = 4 /\ m_phase' = 4 /\ m_currentSegment' < m_length
      /\ (inFlight /\ m_counter' = IDLE /\ branch' # "watchdog") =>
           /\ Stepped /\ branch' = "done"
           /\ m_phase = 8 /\ m_phase' = 8 /\ m_counter = LastSubStep(8)
    ]_vars

(* phase 4 has just been left after the fourth segment byte *)
C19_Witness ==
  /\ m_phase = 5 /\ m_counter = 0 /\ branch = "step"
  /\ m_length = 4 /\ m_currentSegment = 4
  /\ wire = UpToData


DrivenLow(p) == p.mode = "OUTPUT" /\ p.latch = 0

Released(p) == p.mode = "INPUT_PULLUP"

(* the engine is writing a byte *)
InByte == inFlight /\ m_phase \in { 0, 3, 4, 7 }

(* the byte being written, as it was when its first sub-step began *)
ByteInHand ==
  CASE m_phase = 0 -> TM1637_I2C_COMM1
    [] m_phase = 3 -> TM1637_I2C_COMM2 + (m_pos % 4)
    [] m_phase = 4 -> m_segments[m_currentSegment + 1]
    [] m_phase = 7 -> TM1637_I2C_COMM3 + (m_brightness % 16)

(* a byte whose value is known from the call: every byte but the one sent
   in phase 4 when the segment count is 0 *)
KnownByte == m_phase # 4 \/ m_length >= 1

(* the sub-steps of the current byte performed so far *)
Performed ==
  IF m_counter <= 2 THEN 3 * m_bit_count + m_counter ELSE 24 + (m_counter - 3)

(* C20: writing one byte takes 28 performed sub-steps.  For each of the 8
   bits, least-significant first: CLK driven low; DIO released for 1, driven
   low for 0; CLK released and the byte shifted right.  Then the ACK slot: CLK
   driven low, DIO released, CLK released, CLK driven low; that last sub-step,
   the 28th, alone ends the byte and resets the bit count to 0. *)
C20_ByteTakes28SubSteps ==
  [][ (InByte /\ Stepped) =>
        /\ Performed \in 0..27
        /\ Performed < 27 =>
             /\ Performed' = Performed + 1
             /\ m_phase' = m_phase /\ m_currentSegment' = m_currentSegment
             /\ inFlight' /\ ret' = FALSE
        /\ (Performed < 24 /\ Performed % 3 = 0) => DrivenLow(clk') /\ dio' = dio
        /\ (Performed < 24 /\ Performed % 3 = 1) =>
             /\ clk' = clk
             /\ KnownByte =>
                  IF (ByteInHand \div 2^(Performed \div 3)) % 2 = 1
                  THEN Released(dio') ELSE DrivenLow(dio')
        /\ (Performed < 24 /\ Performed % 3 = 2) =>
             /\ Released(clk') /\ dio' = dio
             /\ m_byte' = m_byte \div 2
             /\ m_bit_count' = m_bit_count + 1
        /\ Performed = 24 => DrivenLow(clk') /\ dio' = dio
        /\ Performed = 25 => Released(dio') /\ clk' = clk
        /\ Performed = 26 => Released(clk') /\ dio' = dio
        /\ Performed = 27 =>
             /\ DrivenLow(clk') /\ dio' = dio
             /\ m_bit_count' = 0 /\ m_counter' = 0
             /\ m_phase' = m_phase + 1 \/ m_currentSegment' = m_currentSegment + 1
             /\ KnownByte =>
                  SubSeq(wire', Len(wire') - 8, Len(wire')) = ByteOnWire(ByteInHand)
    ]_vars

(* the address byte has just been completed *)
C20_Witness ==
  /\ m_phase = 4 /\ m_counter = 0 /\ m_bit_count = 0 /\ m_currentSegment = 0
  /\ branch = "step" /\ m_pos = 1
  /\ wire = StopOnWire \o StartOnWire \o ByteOnWire(64) \o StopOnWire
               \o StartOnWire \o ByteOnWire(193)


InStart == inFlight /\ m_phase \in { 2, 6 }

InStop == inFlight /\ m_phase \in { 1, 5, 8 }

(* the sub-machine of the phase reported completion in this call *)
ReportedComplete == m_phase' # m_phase \/ branch' = "done"

(* C21: a start takes exactly 3 sub-steps: release CLK, release DIO, drive
   DIO low, the last with DIO falling while CLK is released; a stop takes
   exactly 4: drive CLK low, drive DIO low, release CLK, release DIO, the last
   with DIO rising while CLK is released; only the last sub-step of each
   reports completion. *)
C21_StartIn3StopIn4 ==
  [][ /\ (InStart /\ Stepped) =>
           /\ m_counter \in 0..2
           /\ m_counter = 0 => Released(clk') /\ dio' = dio /\ m_counter' = 1
           /\ m_counter = 1 => Released(dio') /\ clk' = clk /\ m_counter' = 2
           /\ m_counter = 2 =>
                /\ Released(clk) /\ clk' = clk
                /\ Level(dio) = 1 /\ DrivenLow(dio')
                /\ wire' = wire \o StartOnWire
           /\ ReportedComplete <=> m_counter = 2
      /\ (InStop /\ Stepped) =>
           /\ m_counter \in 0..3
           /\ m_counter = 0 => DrivenLow(clk') /\ dio' = dio /\ m_counter' = 1
           /\ m_counter = 1 => DrivenLow(dio') /\ clk' = clk /\ m_counter' = 2
           /\ m_counter = 2 => Released(clk') /\ dio' = dio /\ m_counter' = 3
           /\ m_counter = 3 =>
                /\ Released(clk) /\ clk' = clk
                /\ Level(dio) = 0 /\ Released(dio')
                /\ wire' = wire \o << "STOP" >>
           /\ ReportedComplete <=> m_counter = 3
    ]_vars

(* the stop after the first command and the start after it have completed *)
C21_Witness ==
  /\ m_phase = 3 /\ m_counter = 0 /\ branch = "step"
  /\ Released(clk) /\ DrivenLow(dio)
  /\ wire = StopOnWire \o StartOnWire \o ByteOnWire(TM1637_I2C_COMM1)
               \o StopOnWire \o StartOnWire


IsCondition(x) == x \in { "START", "STOP" }

(* the START and STOP conditions among the events on the lines *)
Conditions(w) == SelectSeq(w, IsCondition)

(* setSegments has armed the engine and no sub-step has been performed yet *)
JustArmed == pc = 0 /\ branch = "none" /\ calls > 0

(* C22: whatever the two lines were doing when setSegments was called, its
   bus writes bring CLK low, then DIO low, then release CLK, then release
   DIO, then drive DIO low: the lines show one STOP and then one START and no
   other DIO change while CLK is released, and setSegments returns with CLK
   released and DIO driven low. *)
C22_RecoveryFromAnyLineState ==
  /\ pc \in { 141, 142 } => DrivenLow(clk) /\ Conditions(wire) = << >>
  /\ pc \in { 144, 146 } => DrivenLow(clk) /\ DrivenLow(dio) /\ Conditions(wire) = << >>
  /\ pc \in { 150, 152 } => Released(clk) /\ DrivenLow(dio) /\ Conditions(wire) = << >>
  /\ pc \in { 156, 159 } => Released(clk) /\ Released(dio)
                              /\ Conditions(wire) = << "STOP" >>
  /\ (pc \in { 161, 163, 164, 168, 169, 170, 171 } \/ JustArmed) =>
       /\ Released(clk) /\ DrivenLow(dio)
       /\ Conditions(wire) = << "STOP", "START" >>
       /\ wire = StopOnWire \o StartOnWire

(* a call made in the middle of a byte of an earlier transmission, after its
   bus writes *)
C22_Witness ==
  /\ pc = 169 /\ calls = 2 /\ m_bit_count = 3
  /\ Released(clk) /\ DrivenLow(dio)
  /\ wire = StopOnWire \o StartOnWire


(* C23: an update() call that passes the idle, watchdog and rate-limit checks
   performs exactly one sub-step: it changes the drive state of at most one
   of the two lines, and it moves the engine one step on: to the next
   sub-step, the next bit, the next segment byte, the next phase, or from the
   end of the last phase to idle. *)
C23_OneSubStepPerCall ==
  [][ Stepped =>
        /\ inFlight
        /\ clk' = clk \/ dio' = dio
        /\ Len(wire') <= Len(wire) + 1
        /\ \/ /\ m_phase' = m_phase /\ m_counter' = m_counter + 1
              /\ m_currentSegment' = m_currentSegment
           \/ /\ InByte /\ m_counter = 2 /\ m_bit_count < 7
              /\ m_phase' = m_phase /\ m_counter' = 0 /\ m_bit_count' = m_bit_count + 1
              /\ m_currentSegment' = m_currentSegment
           \/ /\ m_counter = LastSubStep(m_phase)
              /\ m_phase' = m_phase + 1 /\ m_counter' = 0
           \/ /\ m_phase = 4 /\ m_counter = LastSubStep(4)
              /\ m_phase' = 4 /\ m_counter' = 0
              /\ m_currentSegment' = m_currentSegment + 1
           \/ /\ m_phase = 8 /\ m_counter = LastSubStep(8)
              /\ m_phase' = 8 /\ m_counter' = IDLE /\ ret' = TRUE
    ]_vars

(* the first sub-step of a transmission has driven CLK low and nothing else *)
C23_Witness ==
  /\ m_phase = 0 /\ m_counter = 1 /\ m_bit_count = 0 /\ branch = "step"
  /\ DrivenLow(clk) /\ DrivenLow(dio)
  /\ wire = StopOnWire \o StartOnWire


(* C24: a setSegments call made while a transmission is in flight, wherever
   that transmission has got to, stops it: from the first statement of the
   call on no update() call changes the engine or the lines; the call leaves
   the engine at phase 0, sub-step 0, bit count 0 with the byte 0x40 and the
   lines after one STOP and one START; and the transmission then stepped to
   completion puts on the lines exactly the frame of the new arguments. *)
C24_RestartInFlight ==
  [][ /\ (InCall /\ pc' = pc) => UNCHANGED << engine, lines >>
      /\ (pc = 171 /\ pc' = 0) =>
           /\ m_phase' = 0 /\ m_counter' = 0 /\ m_bit_count' = 0
           /\ m_byte' = TM1637_I2C_COMM1
           /\ m_segments' = Copied(segments, Clamp(lengthArg))
           /\ wire' = StopOnWire \o StartOnWire
      /\ (branch' = "done" /\ lengthArg >= 1) =>
           wire' = StopOnWire \o FrameOnWire(segments, Clamp(lengthArg), pos, m_brightness)
    ]_vars

(* the second call came while the first transmission was in flight, and its
   own transmission has completed *)
C24_Witness ==
  /\ calls = 2 /\ branch = "done" /\ ret = TRUE /\ isIdle
  /\ segments = << 255, 0, 128, 1 >> /\ lengthArg = 1 /\ pos = 3
  /\ wire = StopOnWire \o FrameOnWire(<< 255, 0, 128, 1 >>, 1, 3, 15)


(* the time since the transmission began does not exceed the watchdog limit *)
WithinWatchdog == ~UGreater(SinceStartMillis, WATCHDOG_MS)

(* the update() call that completed the transmission has just returned *)
JustCompleted == branch = "done" /\ m_lastUpdateMicros = micros

(* update() has not performed a sub-step since setSegments armed the engine *)
NothingSentYet ==
  /\ m_phase = 0 /\ m_counter = 0 /\ m_bit_count = 0
  /\ wire = StopOnWire \o StartOnWire

(* C25 as stated: with update() called every 100 us by the timer, every call
   passes the rate-limit gate, and the transmission completes all nine phases
   within 50 ms of its start, so the watchdog never aborts it. *)
C25_AsStated ==
  /\ branch # "rate"
  /\ branch # "watchdog"
  /\ (inFlight \/ JustCompleted) => WithinWatchdog

(* C25: with update() called every 100 us by the timer, every call passes the
   rate-limit gate except, at most, the first one after setSegments, which
   can come less than 50 us after setSegments took its timestamp; the
   transmission completes all nine phases within 50 ms of its start and the
   watchdog never aborts it. *)
C25_OnlyFirstCallRateLimited ==
  /\ branch = "rate" => NothingSentYet
  /\ branch # "watchdog"
  /\ (inFlight \/ JustCompleted) => WithinWatchdog

(* a transmission of four segment bytes has completed under the timer *)
C25_Witness ==
  /\ JustCompleted /\ m_length = 4 /\ WithinWatchdog
  /\ wire = StopOnWire \o FrameOnWire(segments, 4, pos, m_brightness)


(* C26: the watchdog test and the rate-limit test decide by the true elapsed
   time, whether or not the counter wrapped between the recorded timestamp
   and the reading: expired exactly when more than 50 ms have passed,
   rate-limited exactly when fewer than 50 us have passed. *)
C26_WrapSafeElapsed ==
  call.fn = "update" =>
    /\ call.expired <=> call.num > WATCHDOG_MS
    /\ call.limited <=> call.num < BIT_DELAY_US

(* 49 time units from 36 before the wrap: the reading is 13 *)
C26_Witness ==
  /\ call.fn = "update" /\ call.stamp = U32(65535, 65500) /\ call.num = 49
  /\ UAdd(call.stamp, call.num) = U32(0, 13)
  /\ ~call.expired /\ call.limited


(* C27: the engine never reads a line: from the same state and the same timer
   readings an update() call leaves the same engine state, the same return
   value and the same drive of the two lines whatever the display IC does on
   DIO (acknowledges, does not acknowledge, holds the line low). *)
C27_BlindToTheIC ==
  [][ (\E x \in ICBehaviours : UpdateWithIC(x)) =>
        (\A y \in ICBehaviours : UpdateWithIC(y)) ]_vars

(* a byte and its ACK slot have been written and the stop after it begun *)
C27_Witness ==
  /\ m_phase = 1 /\ m_counter = 1 /\ branch = "step" /\ ret = FALSE
  /\ wire = StopOnWire \o StartOnWire \o ByteOnWire(TM1637_I2C_COMM1)


(* C28: showNumberDec, showNumberDecEx and showNumberHexEx, for every length
   and position, read and write only entries 0..3 of their digit buffer. *)
C28_AsStated ==
  call.fn \in { "showNumberDec", "showNumberDecEx", "showNumberHexEx" } => ~call.outside

(* length 5: digits[4] is written *)
C28_Witness ==
  /\ call.fn = "showNumberDec" /\ call.num = 5 /\ call.length = 5 /\ call.outside
  /\ m_length = 4


(* the sub-steps of the current transmission performed so far: those of the
   phases passed, the segment bytes written, and the part of the current
   sub-machine *)
StepsDone ==
  CASE m_phase = 0 -> Performed
    [] m_phase = 1 -> 28 + m_counter
    [] m_phase = 2 -> 32 + m_counter
    [] m_phase = 3 -> 35 + Performed
    [] m_phase = 4 -> 63 + 28 * m_currentSegment + Performed
    [] m_phase = 5 -> 63 + 28 * m_length + m_counter
    [] m_phase = 6 -> 67 + 28 * m_length + m_counter
    [] m_phase = 7 -> 70 + 28 * m_length + Performed
    [] m_phase = 8 -> 98 + 28 * m_length + m_counter

(* C29: a transmission of L segment bytes, 1 <= L <= 4, that is not aborted
   completes on exactly the (102 + 28 * L)-th update() call that passes the
   rate-limit gate: a new transmission starts with no sub-step done, every
   call that passes the gate does one more sub-step and returns false, except
   the one that finds 101 + 28 * L done, which returns true and leaves the
   engine idle; a call held back by the gate does nothing and returns false. *)
C29_CompletesOnStep102Plus28L ==
  [][ /\ (calls' = calls + 1 /\ inFlight' /\ m_length' >= 1) => StepsDone' = 0
      /\ (inFlight /\ m_length >= 1 /\ Stepped) =>
           /\ StepsDone \in 0..(101 + 28 * m_length)
           /\ IF StepsDone = 101 + 28 * m_length
              THEN ret' = TRUE /\ m_counter' = IDLE /\ branch' = "done"
              ELSE ret' = FALSE /\ inFlight' /\ StepsDone' = StepsDone + 1
      /\ (inFlight /\ m_length >= 1 /\ branch' = "rate" /\ ~Stepped /\ calls' = calls
            /\ pc' = pc /\ clock' = clock) =>
           ret' = FALSE /\ inFlight' /\ StepsDone' = StepsDone
    ]_vars

(* the 214th sub-step of a four-byte transmission has just been done *)
C29_Witness ==
  /\ branch = "done" /\ ret = TRUE /\ m_counter = IDLE /\ m_phase = 8
  /\ m_length = 4 /\ lengthArg = 4
  /\ wire = StopOnWire \o FrameOnWire(segments, 4, pos, m_brightness)


(* C30: while a byte is being written, ACK slot and hand-over to the next
   segment byte included, the level of DIO changes only while CLK is driven
   low; a change of the level of DIO while CLK is released happens only in
   the last sub-step of a start or a stop, or inside setSegments; no START or
   STOP condition appears on the lines while a byte is written. *)
C30_NoConditionInsideByte ==
  [][ /\ Level(dio') # Level(dio) =>
           \/ calls' = calls + 1
           \/ /\ Stepped
              /\ IF InByte THEN DrivenLow(clk) /\ DrivenLow(clk')
                 ELSE /\ InStart \/ InStop
                      /\ Level(clk) = 1 => m_counter = LastSubStep(m_phase)
      /\ (InByte /\ calls' = calls) => Conditions(wire') = Conditions(wire)
    ]_vars

(* hand-over between segment bytes: the ACK slot of the first released DIO,
   bit 0 of the second, a 0, has just driven it low again, with CLK low *)
C30_Witness ==
  /\ m_phase = 4 /\ m_currentSegment = 1 /\ m_bit_count = 0 /\ m_counter = 2
  /\ m_segments = << 63, 6, 0, 0 >> /\ m_length = 2
  /\ branch = "step" /\ DrivenLow(dio) /\ DrivenLow(clk)


(* the phase and the shared sub-step counter of a transmission in flight: a
   sub-machine never sees a counter value it has no case for *)
CounterInRange ==
  /\ m_phase \in 0..8
  /\ m_counter \in 0..LastSubStep(m_phase)

(* the entry of the segment buffer read for the byte in hand is below the
   stored length; with a stored length of 0 no entry is read *)
ReadsInsideLength ==
  /\ m_length \in 0..4
  /\ m_phase = 4 => IF m_length = 0 THEN m_currentSegment = 0
                                   ELSE m_currentSegment < m_length

(* C31 as stated: with a transmission in flight the phase is in 0..8, the
   counter is in 0..6 in the byte phases, 0..3 in the stop phases and 0..2 in
   the start phases, the bit count is in 0..7 between calls, and every read
   of the segment buffer uses an index below the stored length, at most 4. *)
C31_AsStated ==
  inFlight => /\ CounterInRange
              /\ m_bit_count \in 0..7
              /\ ReadsInsideLength

(* C31: as above, but the bit count is in 0..8 between calls: it is 8 during
   the ACK slot of a byte (counter 3..6) and in 0..7 otherwise, 0 outside the
   byte phases. *)
C31_BitCountUpTo8 ==
  inFlight => /\ CounterInRange
              /\ IF InByte /\ m_counter >= 3 THEN m_bit_count = 8
                 ELSE IF InByte THEN m_bit_count \in 0..7
                 ELSE m_bit_count = 0
              /\ ReadsInsideLength

(* the ACK slot of the first byte of a transmission that setSegments began
   while another was in flight *)
C31_Witness ==
  /\ inFlight /\ calls = 2 /\ pc = 0
  /\ m_phase = 0 /\ m_counter = 3 /\ m_bit_count = 8


(* C32: a watchdog abort changes only the idle tag: m_counter becomes 255,
   update() returns true, and the phase, the current byte, the bit count, the
   segment index, both timestamps and both bus lines are as they were; no
   stop condition is sent, and the idle engine leaves the lines as they
   are until setSegments is called. *)
C32_WatchdogChangesOnlyIdleTag ==
  [][ /\ (inFlight /\ ~inFlight' /\ branch' = "watchdog" /\ calls' = calls) =>
           /\ m_counter' = IDLE /\ ret' = TRUE
           /\ UNCHANGED << m_phase, m_byte, m_bit_count, m_currentSegment,
                           m_lastUpdateMicros, m_transmissionStartMillis,
                           clk, dio, wire, drivenHigh,
                           m_segments, m_length, m_pos, m_brightness >>
      /\ (~inFlight /\ ~inFlight' /\ calls' = calls /\ pc' = pc) =>
           UNCHANGED << clk, dio, wire >>
    ]_vars

(* aborted inside the first byte: both lines are driven low, the engine is
   idle and no stop condition followed the start *)
C32_Witness ==
  /\ branch = "watchdog" /\ ret = TRUE /\ m_counter = IDLE
  /\ m_phase = 0 /\ m_bit_count = 1 /\ DrivenLow(clk) /\ DrivenLow(dio)
  /\ Conditions(wire) = << "STOP", "START" >>


BothReleased == Released(clk) /\ Released(dio)

(* C33: after construction, and after every transmission that ends by
   completing its final stop condition, both CLK and DIO are released, and
   they stay released while the engine remains idle: until the first
   setSegments nothing drives a line, the update() call that completes the
   final stop leaves both released, and an idle engine changes no line. *)
C33_IdleLinesReleased ==
  [][ /\ calls = 0 => BothReleased
      /\ calls' = 0 => BothReleased'
      /\ (inFlight /\ ~inFlight' /\ branch' = "done" /\ calls' = calls) =>
           BothReleased' /\ m_phase = 8 /\ m_counter = LastSubStep(8)
      /\ (~inFlight /\ ~inFlight' /\ calls' = calls /\ pc' = pc) =>
           UNCHANGED << clk, dio >>
    ]_vars

(* an update() call on the engine that completed its transmission: idle, and
   both lines still released *)
C33_Witness ==
  /\ calls = 1 /\ branch = "idle" /\ ret = TRUE /\ m_counter = IDLE
  /\ m_phase = 8 /\ BothReleased
  /\ wire = StopOnWire \o FrameOnWire(segments, Clamp(lengthArg), pos, m_brightness)


(* the number of data bytes of a transmission begun with length argument l *)
DataBytes(l) == IF l < 1 THEN 1 ELSE IF l > 4 THEN 4 ELSE l

(* C34: setSegments with length 0 still runs the whole transmission, all nine
   phases, and puts exactly one data byte, 0x00, after the address byte; for
   every length the number of data bytes on the lines is
   max(1, min(length, 4)), and they are the first entries of the array. *)
C34_AtLeastOneDataByte ==
  Completed =>
    /\ m_phase = 8
    /\ wire = StopOnWire
               \o FrameOnWire(IF lengthArg = 0 THEN << 0, 0, 0, 0 >> ELSE segments,
                              DataBytes(lengthArg), pos, m_brightness)

(* length 0 at position 2: one data byte 0x00 follows the address byte 0xC2 *)
C34_Witness ==
  /\ Completed /\ lengthArg = 0 /\ pos = 2 /\ m_length = 0 /\ m_currentSegment = 1
  /\ wire = StopOnWire \o StartOnWire \o ByteOnWire(64) \o StopOnWire
               \o StartOnWire \o ByteOnWire(194) \o ByteOnWire(0) \o StopOnWire
               \o StartOnWire \o ByteOnWire(143) \o StopOnWire

====
